---- MODULE Spec2Model ----
(***************************************************************************)
(* Model of the chat-log parsers of vscode-chat-logs:                      *)
(*   detectLogFormat, parseLog, CopilotLogParser (text), JsonLogParser and *)
(*   ChatReplayParser.  Each parser is a loop over lines / response items  *)
(*   / log entries; one action of the model is one iteration of the loop,  *)
(*   split by the branch of the loop body that handles the element.        *)
(*   Strings are represented by sample strings; a predicate on a string    *)
(*   (a regular expression, startsWith, trim) is the table of its values   *)
(*   on the samples.                                                       *)
(***************************************************************************)
EXTENDS Integers, Sequences, FiniteSets, TLC

\* ---------------------------------------------------------------- bounds
\* the lines of a text log
MaxLines == 4
\* the requests of a JSON export, and its requests and response items together
MaxRequests == 2
MaxJsonWork == 6
\* the prompts of a chat replay, and its prompts and log entries together
MaxPrompts == 3
MaxReplayWork == 5

\* ------------------------------------------------------- generic helpers
Last(s) == s[Len(s)]

RECURSIVE SumSeq(_)
SumSeq(s) == IF s = <<>> THEN 0 ELSE Head(s) + SumSeq(Tail(s))

\* number of elements of s satisfying Test
CountSeq(s, Test(_)) == Len(SelectSeq(s, Test))

\* ------------------------------------------------ sample lines (text log)
\* (the sample strings write ' for the backtick character)
LUser == "digitarald: Hello"
LAsst == "GitHub Copilot: Intro"
LAsstEmpty == "GitHub Copilot:"
LBlank == ""
LText == "More"
LIndent == "  indented"
LRan == "Ran Click"
LSearchedN == "Searched for regex 'X', 6 results"
LSearchedNone == "Searched for files matching '**/F*', no matches"
LMulti == "Searched for regex 'a'|Searched (**/c/**), no results"
LMultiBare == "Searched for text 'a'|Searched for regex 'a'"
LReadRef == "Read [](file:///ws/src/a.ts#1-5)"
LRef == "See [](file:///ws/b.ts)"
LCwiJson == "Completed with input: {\"a\": 1}"
LCwiOpen == "Completed with input: {"
LCwiEmpty == "Completed with input:"
LCwiText == "Completed with input: plain"
LClose == "}"
LJsonLine == "{\"a\": 1}"
LFence == "'''"
LFenceTs == "'''ts"
LStarting == "Starting: *Plan* (1/3)"
LCreated == "Created 3 todos"
LCompleted == "Completed: *Plan* (1/3)"
\* a line of a JSON document (a valid JSON text never has a line that starts
\* with a letter other than those of true/false/null, nor with a backtick)
LJsonDoc == "  \"prompt\": \"hi\","

\* the lines the text logs of the model are made of
Lines ==
  { LUser, LAsst, LBlank, LText, LIndent, LRan, LMulti, LReadRef, LRef,
    LCwiJson, LCwiOpen, LCwiEmpty, LClose, LFence, LStarting, LCreated }

\* the lines of the text logs of searches
SearchLines ==
  { LUser, LAsst, LText, LSearchedN, LSearchedNone, LMulti, LMultiBare }

\* the lines of the text logs of task lists and of messages without text
TaskLines ==
  { LUser, LAsstEmpty, LBlank, LText, LRef, LStarting, LCreated, LCompleted }

\* ------------------------------------------------------ string predicates
\* s.trim() === ''
TrimIsEmpty(s) == s \in {"", "  "}

\* s.trimStart() / s.trimEnd() on the samples
TrimStart(s) == IF s = LIndent THEN "indented" ELSE s
TrimEnd(s) == s

\* lines.join('\n').trim(), as the sequence of the lines of the result;
\* << >> stands for the empty string
TrimJoin(ls) ==
  LET idx == { k \in 1..Len(ls) : ~TrimIsEmpty(ls[k]) } IN
  IF idx = {} THEN << >>
  ELSE LET a == CHOOSE k \in idx : \A j \in idx : k <= j
           b == CHOOSE k \in idx : \A j \in idx : k >= j
       IN [ k \in 1..(b - a + 1) |->
              IF a = b THEN TrimEnd(TrimStart(ls[a]))
              ELSE IF k = 1 THEN TrimStart(ls[a])
              ELSE IF k = b - a + 1 THEN TrimEnd(ls[b])
              ELSE ls[a + k - 1] ]

\* lines.filter(Boolean): drops the empty strings
FilterBoolean(ls) == SelectSeq(ls, LAMBDA s : s # "")

\* line.startsWith('Searched ') && line.includes('|Searched ')
IsMultiSearch(line) == line \in {LMulti, LMultiBare}

\* line.split('|Searched').map((part, idx) => idx === 0 ? part : 'Searched' + part)
SplitSearched(line) ==
  CASE line = LMulti ->
         << "Searched for regex 'a'", "Searched (**/c/**), no results" >>
    [] line = LMultiBare ->
         << "Searched for text 'a'", "Searched for regex 'a'" >>
    [] OTHER -> << line >>

\* line.trim().startsWith of a fence marker (three backticks)
IsFence(line) == line \in {LFence, LFenceTs}

\* line.trim().slice(3).trim() || 'plaintext'
FenceLanguage(line) == IF line = LFenceTs THEN "ts" ELSE "plaintext"

\* /^(digitarald:|GitHub Copilot:|Ran |Searched |Read |Got output)/
IsSectionStart(line) ==
  line \in {LUser, LAsst, LAsstEmpty, LRan, LSearchedN, LSearchedNone, LMulti,
            LMultiBare, LReadRef}

\* JSON.parse(lines.join('\n')) succeeds
JsonParses(ls) ==
  SelectSeq(ls, LAMBDA s : ~TrimIsEmpty(s)) \in { << "{", "}" >>, << LJsonLine >> }

\* line.match(/^(\w+):\s*(.+)/) with group 1 === 'digitarald'; the value is
\* << group 2 >>, or << >> when there is no such match
UserMatch(line) == IF line = LUser THEN << "Hello" >> ELSE << >>

\* line.startsWith('GitHub Copilot:')
IsAssistant(line) == line \in {LAsst, LAsstEmpty}

\* line.replace('GitHub Copilot:', '').trim()
AssistantText(line) == IF line = LAsst THEN "Intro" ELSE ""

\* line.startsWith('Read')
StartsWithRead(line) == line = LReadRef

\* /^Completed with input:/
IsCompletedWithInput(line) == line \in {LCwiJson, LCwiOpen, LCwiEmpty, LCwiText}

\* group 1 of /^Completed with input:\s*(.*)/, trimmed
InlineInput(line) ==
  CASE line = LCwiJson -> LJsonLine
    [] line = LCwiOpen -> "{"
    [] line = LCwiText -> "plain"
    [] OTHER -> ""

\* s.startsWith('{') || s.startsWith('[')
LooksLikeJson(s) == s \in {"{", LJsonLine}

Undefined == "undefined"

\* ------------------------------------------------- text parser: records
\* a ToolCall object (src/lib/parser/types.ts); the model keeps the objects
\* in a heap and refers to them by index, as the code refers to them by
\* reference (lastToolCall aliases the object held by a segment). The
\* object literals of the text parser set neither rawAction nor
\* normalizedResultCount: << >> is an unset property
TextToolCall(type, action, output, status) ==
  [ type |-> type, action |-> action, output |-> output, input |-> << >>,
    status |-> status, rawAction |-> << >>, normalizedResultCount |-> << >> ]

\* CopilotLogParser.parseToolCall: << the tool call >>, or << >> for null
parseToolCall(line) ==
  CASE line = LStarting ->
         << TextToolCall("todo", "Starting Plan 1/3", Undefined, "completed") >>
    [] line = LRan ->
         << TextToolCall("click", "Click", Undefined, "completed") >>
    [] line = LSearchedN ->
         << TextToolCall("search", "for regex 'X'", "6 results", "completed") >>
    [] line = LSearchedNone ->
         << TextToolCall("search", "for files matching '**/F*'", "0 results",
                         "completed") >>
    [] line = "Searched for regex 'a'" ->
         << TextToolCall("search", "for regex a", Undefined, "completed") >>
    [] line = "Searched (**/c/**), no results" ->
         << TextToolCall("search", "(**/c/**)", "0 results", "completed") >>
    [] OTHER -> << >>

\* CopilotLogParser.parseFileReference: << the reference >>, or << >>
parseFileReference(line) ==
  CASE line = LReadRef -> << [ path |-> "/ws/src/a.ts", lines |-> "1-5" ] >>
    [] line = LRef -> << [ path |-> "/ws/b.ts", lines |-> Undefined ] >>
    [] OTHER -> << >>

\* `Read ${fileRef.path.split('/').pop()}`
ReadAction(path) ==
  CASE path = "/ws/src/a.ts" -> "Read a.ts"
    [] path = "/ws/b.ts" -> "Read b.ts"
    [] OTHER -> "Read"

\* the input property of a ToolCall: << >> when it is undefined, else
\* << the lines of the string >>
InputOf(ls) == << IF ls = << >> THEN << "" >> ELSE ls >>

\* CopilotLogParser.parseTaskStatus: << the task >>, or << >>
parseTaskStatus(line) ==
  CASE line = LCreated ->
         << [ title |-> "Created 3 todos", status |-> "completed", index |-> Undefined ] >>
    [] line = LStarting ->
         << [ title |-> "Plan", status |-> "started", index |-> "1/3" ] >>
    [] line = LCompleted ->
         << [ title |-> "Plan", status |-> "completed", index |-> "1/3" ] >>
    [] OTHER -> << >>

TextSeg(content, order) ==
  [ type |-> "text", content |-> content, language |-> "", toolCall |-> 0,
    order |-> order ]

ToolSeg(ref, order) ==
  [ type |-> "tool_call", content |-> << >>, language |-> "", toolCall |-> ref,
    order |-> order ]

ThinkingSeg(content, order) ==
  [ type |-> "thinking", content |-> content, language |-> "", toolCall |-> 0,
    order |-> order ]

CodeSeg(language, code, order) ==
  [ type |-> "code_block", content |-> code, language |-> language,
    toolCall |-> 0, order |-> order ]

\* the locals of CopilotLogParser.parse and the two counters of the
\* instance; currentMessage and currentCodeBlock are << >> for null and
\* lastToolCall is 0 for null
TextInit ==
  [ messages |-> << >>, currentMessage |-> << >>, currentContent |-> << >>,
    contentSegments |-> << >>, inCodeBlock |-> FALSE,
    currentCodeBlock |-> << >>, codeLines |-> << >>, inToolInput |-> FALSE,
    toolInputLines |-> << >>, lastToolCall |-> 0, heap |-> << >>,
    messageIdCounter |-> 0, segmentOrderCounter |-> 0, i |-> 0 ]

NewMessage(id, role) ==
  [ id |-> id, role |-> role, contentSegments |-> << >>,
    fileReferences |-> << >>, codeBlocks |-> << >>, tasks |-> << >> ]

\* the flush in front of a tool call: push currentContent.join('\n').trim()
\* as a text segment when it is not empty, then empty the buffer
FlushContent(st) ==
  IF Len(st.currentContent) > 0
  THEN LET textContent == TrimJoin(st.currentContent) IN
       IF textContent # << >>
       THEN [ st EXCEPT
                !.contentSegments = Append(@, TextSeg(textContent, st.segmentOrderCounter)),
                !.segmentOrderCounter = @ + 1,
                !.currentContent = << >> ]
       ELSE [ st EXCEPT !.currentContent = << >> ]
  ELSE st

\* the flush of the Read branch: currentContent.filter(Boolean).join('\n').trim()
FlushContentRead(st) ==
  IF Len(st.currentContent) > 0
  THEN LET textContent == TrimJoin(FilterBoolean(st.currentContent)) IN
       IF textContent # << >>
       THEN [ st EXCEPT
                !.contentSegments = Append(@, TextSeg(textContent, st.segmentOrderCounter)),
                !.segmentOrderCounter = @ + 1,
                !.currentContent = << >> ]
       ELSE [ st EXCEPT !.currentContent = << >> ]
  ELSE st

\* push a tool_call segment for a new ToolCall object; the value is the
\* state with the object in the heap
PushToolCall(st, toolCall) ==
  [ st EXCEPT
      !.heap = Append(@, toolCall),
      !.contentSegments = Append(@, ToolSeg(Len(st.heap) + 1, st.segmentOrderCounter)),
      !.segmentOrderCounter = @ + 1 ]

\* finalizeMessage with every message pushed
finalizeMessageAlways(st) ==
  LET textContent == TrimJoin(st.currentContent)
      st1 == IF Len(st.currentContent) > 0 /\ textContent # << >>
             THEN [ st EXCEPT
                      !.contentSegments = Append(@, TextSeg(textContent, st.segmentOrderCounter)),
                      !.segmentOrderCounter = @ + 1 ]
             ELSE st
      message == [ st1.currentMessage[1] EXCEPT !.contentSegments = st1.contentSegments ]
  IN [ st1 EXCEPT !.messages = Append(@, message) ]

\* CopilotLogParser.finalizeMessage(currentMessage, currentContent,
\* contentSegments, messages)
finalizeMessage(st) ==
  LET textContent == TrimJoin(st.currentContent)
      st1 == IF Len(st.currentContent) > 0 /\ textContent # << >>
             THEN [ st EXCEPT
                      !.contentSegments = Append(@, TextSeg(textContent, st.segmentOrderCounter)),
                      !.segmentOrderCounter = @ + 1 ]
             ELSE st
      message == [ st1.currentMessage[1] EXCEPT !.contentSegments = st1.contentSegments ]
  IN IF Len(st1.contentSegments) > 0 \/ Len(message.fileReferences) > 0
     THEN [ st1 EXCEPT !.messages = Append(@, message) ]
     ELSE st1

\* ------------------------------------------- text parser: the loop body
\* lines 53-84: the combined multi-search line (currentMessage is set)
RECURSIVE PushSearches(_, _)
PushSearches(st, segments) ==
  IF segments = << >> THEN st
  ELSE LET searchToolCall == parseToolCall(Head(segments)) IN
       IF searchToolCall # << >>
       THEN PushSearches(
              [ PushToolCall(st, searchToolCall[1]) EXCEPT !.lastToolCall = Len(st.heap) + 1 ],
              Tail(segments))
       ELSE PushSearches(st, Tail(segments))

MultiSearchBranch(st, line) == PushSearches(FlushContent(st), SplitSearched(line))

\* lines 87-105: a fence line opens or closes a code block
FenceBranch(st, line) ==
  IF ~st.inCodeBlock
  THEN [ st EXCEPT !.inCodeBlock = TRUE,
                   !.currentCodeBlock = << [ language |-> FenceLanguage(line), code |-> << >> ] >>,
                   !.codeLines = << >> ]
  ELSE LET closed == [ st EXCEPT !.inCodeBlock = FALSE, !.currentCodeBlock = << >> ] IN
       IF st.currentCodeBlock # << >> /\ st.currentMessage # << >>
       THEN [ closed EXCEPT
                !.currentMessage[1].codeBlocks =
                   Append(@, [ st.currentCodeBlock[1] EXCEPT !.code = st.codeLines ]) ]
       ELSE closed

\* lines 150-164: a user marker starts a user message
UserBranch(st, line) ==
  LET st1 == IF st.currentMessage # << >> THEN finalizeMessage(st) ELSE st IN
  [ st1 EXCEPT
      !.messageIdCounter = @ + 1,
      !.currentMessage = << NewMessage(st1.messageIdCounter + 1, "user") >>,
      !.currentContent = << UserMatch(line)[1] >>,
      !.contentSegments = << >>,
      !.segmentOrderCounter = 0 ]

\* lines 167-180: an assistant marker starts an assistant message
AssistantBranch(st, line) ==
  LET st1 == IF st.currentMessage # << >> THEN finalizeMessage(st) ELSE st IN
  [ st1 EXCEPT
      !.messageIdCounter = @ + 1,
      !.currentMessage = << NewMessage(st1.messageIdCounter + 1, "assistant") >>,
      !.currentContent = << AssistantText(line) >>,
      !.contentSegments = << >>,
      !.segmentOrderCounter = 0 ]

\* lines 183-217: a file reference, and the read tool call of a Read line
FileRefBranch(st, line) ==
  LET fileRef == parseFileReference(line)[1]
      st1 == [ st EXCEPT !.currentMessage[1].fileReferences = Append(@, fileRef) ]
  IN IF StartsWithRead(line)
     THEN PushToolCall(
            FlushContentRead(st1),
            [ type |-> "read", action |-> ReadAction(fileRef.path),
              output |-> Undefined, input |-> InputOf(<< fileRef.path >>),
              status |-> "completed", rawAction |-> << >>,
              normalizedResultCount |-> << >> ])
     ELSE st1

\* the branch of a 'Completed with input:' line with the collection of the
\* tool input always started on an empty buffer
CompletedWithInputBranchEmptyBuffer(st, line) ==
  LET inlineInput == InlineInput(line) IN
  IF st.lastToolCall = 0 THEN st
  ELSE IF inlineInput # ""
  THEN IF LooksLikeJson(inlineInput)
       THEN IF JsonParses(<< inlineInput >>)
            THEN [ st EXCEPT !.heap[st.lastToolCall].input = InputOf(<< inlineInput >>),
                             !.lastToolCall = 0 ]
            ELSE [ st EXCEPT !.inToolInput = TRUE, !.toolInputLines = << >> ]
       ELSE [ st EXCEPT !.heap[st.lastToolCall].input = InputOf(<< inlineInput >>),
                        !.lastToolCall = 0 ]
  ELSE [ st EXCEPT !.inToolInput = TRUE, !.toolInputLines = << >> ]

\* lines 220-250: a 'Completed with input:' line
CompletedWithInputBranch(st, line) ==
  LET inlineInput == InlineInput(line) IN
  IF st.lastToolCall = 0 THEN st
  ELSE IF inlineInput # ""
  THEN IF LooksLikeJson(inlineInput)
       THEN IF JsonParses(<< inlineInput >>)
            THEN [ st EXCEPT !.heap[st.lastToolCall].input = InputOf(<< inlineInput >>),
                             !.lastToolCall = 0 ]
            ELSE [ st EXCEPT !.inToolInput = TRUE,
                             !.toolInputLines = << inlineInput >> ]
       ELSE [ st EXCEPT !.heap[st.lastToolCall].input = InputOf(<< inlineInput >>),
                        !.lastToolCall = 0 ]
  ELSE [ st EXCEPT !.inToolInput = TRUE, !.toolInputLines = << >> ]

\* the tool-call branch without the flush of the pending text
ToolCallBranchNoFlush(st, line) ==
  [ PushToolCall(st, parseToolCall(line)[1])
      EXCEPT !.lastToolCall = Len(st.heap) + 1 ]

\* lines 253-278: a line of the recogniser table
ToolCallBranch(st, line) ==
  [ PushToolCall(FlushContent(st), parseToolCall(line)[1])
      EXCEPT !.lastToolCall = Len(st.heap) + 1 ]

\* the task branch with the line added to the text buffer as well
TaskBranchBuffered(st, line) ==
  [ st EXCEPT !.currentMessage[1].tasks = Append(@, parseTaskStatus(line)[1]),
              !.currentContent = Append(@, line) ]

\* lines 281-286: a task-status line
TaskBranch(st, line) ==
  [ st EXCEPT !.currentMessage[1].tasks = Append(@, parseTaskStatus(line)[1]) ]

\* the content branch with the line dropped
ContentBranchDropped(st, line) == st

\* lines 289-292: a regular content line
ContentBranch(st, line) ==
  IF st.currentMessage # << >>
  THEN [ st EXCEPT !.currentContent = Append(@, line) ]
  ELSE st

\* the rules of lines 149-292 with the task status tried before the tool
\* call
NormalRuleTaskFirst(st, line) ==
  CASE UserMatch(line) # << >> -> "user"
    [] IsAssistant(line) -> "assistant"
    [] parseFileReference(line) # << >> /\ st.currentMessage # << >> -> "fileRef"
    [] IsCompletedWithInput(line) -> "completedWithInput"
    [] parseTaskStatus(line) # << >> /\ st.currentMessage # << >> -> "task"
    [] parseToolCall(line) # << >> /\ st.currentMessage # << >> -> "toolCall"
    [] OTHER -> "content"

\* the rule of lines 149-292 that handles a line
NormalRule(st, line) ==
  CASE UserMatch(line) # << >> -> "user"
    [] IsAssistant(line) -> "assistant"
    [] parseFileReference(line) # << >> /\ st.currentMessage # << >> -> "fileRef"
    [] IsCompletedWithInput(line) -> "completedWithInput"
    [] parseToolCall(line) # << >> /\ st.currentMessage # << >> -> "toolCall"
    [] parseTaskStatus(line) # << >> /\ st.currentMessage # << >> -> "task"
    [] OTHER -> "content"

NormalBranch(st, line) ==
  LET rule == NormalRule(st, line) IN
  CASE rule = "user" -> UserBranch(st, line)
    [] rule = "assistant" -> AssistantBranch(st, line)
    [] rule = "fileRef" -> FileRefBranch(st, line)
    [] rule = "completedWithInput" -> CompletedWithInputBranch(st, line)
    [] rule = "toolCall" -> ToolCallBranch(st, line)
    [] rule = "task" -> TaskBranch(st, line)
    [] OTHER -> ContentBranch(st, line)

\* lines 113-147: a line met while the tool input is collected; the value
\* is << the state, whether the line is still to be handled by the rules of
\* lines 149-292 >>
ToolInputBranch(st, line) ==
  LET st1 == [ st EXCEPT !.toolInputLines = Append(@, line) ] IN
  IF JsonParses(st1.toolInputLines)
  THEN IF st1.lastToolCall # 0 /\ st1.currentMessage # << >>
       THEN << [ st1 EXCEPT !.heap[st1.lastToolCall].input = InputOf(st1.toolInputLines),
                            !.inToolInput = FALSE,
                            !.toolInputLines = << >>,
                            !.lastToolCall = 0 ], FALSE >>
       ELSE << st1, FALSE >>
  ELSE IF TrimIsEmpty(line) \/ IsSectionStart(line)
  THEN << [ st1 EXCEPT
              !.heap = IF st1.lastToolCall # 0
                       THEN [ @ EXCEPT ![st1.lastToolCall].input =
                                InputOf(SubSeq(st1.toolInputLines, 1,
                                               Len(st1.toolInputLines) - 1)) ]
                       ELSE @,
              !.inToolInput = FALSE,
              !.toolInputLines = << >>,
              !.lastToolCall = 0 ], TRUE >>
  ELSE << st1, FALSE >>

\* the branch of the loop body (lines 48-293) that handles a line
RuleOf(st, line) ==
  IF IsMultiSearch(line) /\ st.currentMessage # << >> THEN "multiSearch"
  ELSE IF IsFence(line) THEN "fence"
  ELSE IF st.inCodeBlock THEN "codeLine"
  ELSE IF st.inToolInput
  THEN LET r == ToolInputBranch(st, line) IN
       IF r[2] THEN NormalRule(r[1], line) ELSE "toolInput"
  ELSE NormalRule(st, line)

\* one iteration of the loop of CopilotLogParser.parse
ProcessLine(st, line) ==
  IF IsMultiSearch(line) /\ st.currentMessage # << >> THEN MultiSearchBranch(st, line)
  ELSE IF IsFence(line) THEN FenceBranch(st, line)
  ELSE IF st.inCodeBlock THEN [ st EXCEPT !.codeLines = Append(@, line) ]
  ELSE IF st.inToolInput
  THEN LET r == ToolInputBranch(st, line) IN
       IF r[2] THEN NormalBranch(r[1], line) ELSE r[1]
  ELSE NormalBranch(st, line)

\* lines 295-308: finalize the last message and build the session
IsToolSeg(s) == s.type = "tool_call"

\* the session with every content segment counted as a tool call
SessionOfAllSegments(messages, fileCount) ==
  [ messages |-> messages,
    metadata |->
      [ totalMessages |-> Len(messages),
        toolCallCount |->
          SumSeq([ k \in 1..Len(messages) |-> Len(messages[k].contentSegments) ]),
        fileCount |-> fileCount ] ]

SessionOf(messages, fileCount) ==
  [ messages |-> messages,
    metadata |->
      [ totalMessages |-> Len(messages),
        toolCallCount |->
          SumSeq([ k \in 1..Len(messages) |->
                     CountSeq(messages[k].contentSegments, IsToolSeg) ]),
        fileCount |-> fileCount ] ]

TextFinish(st) ==
  IF st.currentMessage # << >> THEN finalizeMessage(st) ELSE st

TextSession(st) ==
  SessionOf(st.messages,
            SumSeq([ k \in 1..Len(st.messages) |-> Len(st.messages[k].fileReferences) ]))

\* ------------------------------------------ JSON export parser: items
\* a response item; value is "" when the item has no string value, the
\* tool-invocation properties are those of kind toolInvocationSerialized,
\* and uri and edits (an array of arrays of edits) those of kind
\* textEditGroup; uri is "" and edits is << >> when the item has none
Item(kind, value, name, id, toolId, fromSubAgent) ==
  [ kind |-> kind, value |-> value, name |-> name, id |-> id, done |-> FALSE,
    toolId |-> toolId, toolCallId |-> 0, fromSubAgent |-> fromSubAgent,
    uri |-> "", edits |-> << >>, message |-> "", output |-> "" ]

VText == "Hello"
VCode == "Intro\n'''js\nx\n'''\nEnd"

IText == Item(Undefined, VText, "", "", "", FALSE)
ICode == Item(Undefined, VCode, "", "", "", FALSE)
IRef == Item("inlineReference", "", "src/a.ts", "", "", FALSE)
ITool == Item("toolInvocationSerialized", "", "", "", "copilot_readFile", FALSE)
ISub == Item("toolInvocationSerialized", "", "", "", "copilot_readFile", TRUE)
IThink == Item("thinking", "Hmm", "", "t1", "", FALSE)
IUndo == Item("undoStop", "", "", "", "", FALSE)

Items == { IText, ICode, IRef, ITool, ISub, IThink, IUndo }

\* thinking items: one with another id, one without id, one with an empty
\* value and one marked metadata.vscodeReasoningDone, both with the id of
\* IThink
IThinkNext == Item("thinking", "Next", "", "t2", "", FALSE)
IThinkNoId == Item("thinking", "Hmm", "", "", "", FALSE)
IThinkEmpty == Item("thinking", "", "", "t1", "", FALSE)
IThinkDone == [ Item("thinking", "Hmm", "", "t1", "", FALSE) EXCEPT !.done = TRUE ]

ThinkingItems == { IText, IThink, IThinkNext, IThinkNoId, IThinkEmpty, IThinkDone }

\* a replaceString invocation, two textEditGroup items (the first with one
\* array of two edits, the second with an empty array and an array of one
\* edit; an edit is named by its text) and a value that is only a fence
IReplace == Item("toolInvocationSerialized", "", "", "", "copilot_replaceString", FALSE)
IEditA ==
  [ Item("textEditGroup", "", "", "", "", FALSE) EXCEPT
      !.uri = "src/a.ts", !.edits = << << "a1", "a2" >> >> ]
IEditB ==
  [ Item("textEditGroup", "", "", "", "", FALSE) EXCEPT
      !.uri = "src/b.ts", !.edits = << << >>, << "b1" >> >> ]
IFenceOnly == Item(Undefined, "'''", "", "", "", FALSE)

EditItems == { IText, IReplace, IEditA, IEditB, IFenceOnly }

\* tool invocations with a message (pastTenseMessage || invocationMessage)
\* and an output (the embed value of resultDetails.output); "" is absent
ICountOut ==
  [ Item("toolInvocationSerialized", "", "", "", "copilot_searchCodebase", FALSE)
      EXCEPT !.message = "Searched codebase", !.output = "3 results" ]
ICountMsg ==
  [ Item("toolInvocationSerialized", "", "", "", "copilot_findTextInFiles", FALSE)
      EXCEPT !.message = "Searched text for x, 1 result" ]
INoMatches ==
  [ Item("toolInvocationSerialized", "", "", "", "copilot_searchCodebase", FALSE)
      EXCEPT !.message = "Searched for y, No Matches" ]
INoCount ==
  [ Item("toolInvocationSerialized", "", "", "", "copilot_searchCodebase", FALSE)
      EXCEPT !.message = "Searched codebase" ]
IReadCount ==
  [ Item("toolInvocationSerialized", "", "", "", "copilot_readFile", FALSE)
      EXCEPT !.message = "Read a.ts", !.output = "3 results" ]

CountItems == { ICountOut, ICountMsg, INoMatches, INoCount, IReadCount }

\* the kinds skipped at lines 185-192
skipKinds ==
  { "codeblockUri", "textEditGroup", "prepareToolInvocation", "undoStop",
    "mcpServersStarting" }

\* value.trim() is not empty
TrimmedNonEmpty(v) == v \notin {"", "  "}

\* /^('''\w*\s*)+$/.test(value.trim())
OnlyCodeBlocks(v) == v \in {"'''", "'''ts"}

\* refName.includes('/') || /\.\w+#?L?\d*$/.test(refName)
LooksLikeFilePath(name) == name \in {"src/a.ts"}

\* the text appended for an inline reference: a markdown link or inline code
LinkOf(name) == IF name = "src/a.ts" THEN "[src/a.ts](src/a.ts)" ELSE name
CodeOf(name) == IF name = "parseLog" THEN "'parseLog'" ELSE name

\* a string is the sequence of the chunks appended to it; the chunks of a
\* value are its text in front of, inside and behind a fenced block
Chunks(v) == IF v = VCode THEN << "Intro\n", "'''js\nx\n'''", "\nEnd" >> ELSE << v >>

\* the chunk is a match of /'''([a-zA-Z0-9_-]*)\n([\s\S]*?)'''/
IsFencedBlock(chunk) == chunk = "'''js\nx\n'''"
FencedLanguage(chunk) == IF chunk = "'''js\nx\n'''" THEN "js" ELSE "plaintext"
FencedCode(chunk) == IF chunk = "'''js\nx\n'''" THEN << "x\n" >> ELSE << chunk >>

\* text.trim() of a run of chunks: the first chunk loses its leading white
\* space and the last its trailing white space (no chunk is all white space)
TrimStartChunk(c) == IF c = "\nEnd" THEN "End" ELSE c
TrimEndChunk(c) == IF c = "Intro\n" THEN "Intro" ELSE c

TrimChunks(cs) ==
  [ k \in 1..Len(cs) |->
      IF k = 1 /\ k = Len(cs) THEN TrimEndChunk(TrimStartChunk(cs[k]))
      ELSE IF k = 1 THEN TrimStartChunk(cs[k])
      ELSE IF k = Len(cs) THEN TrimEndChunk(cs[k])
      ELSE cs[k] ]

\* JsonLogParser.splitTextIntoSegments: the segments without their order,
\* as << type, language, content >>
RECURSIVE SplitFrom(_, _, _)
SplitFrom(chunks, run, segments) ==
  IF chunks = << >>
  THEN IF TrimChunks(run) # << >>
       THEN Append(segments, << "text", "", TrimChunks(run) >>)
       ELSE segments
  ELSE IF IsFencedBlock(Head(chunks))
  THEN SplitFrom(Tail(chunks), << >>,
         Append(IF TrimChunks(run) # << >>
                THEN Append(segments, << "text", "", TrimChunks(run) >>)
                ELSE segments,
                << "code_block", FencedLanguage(Head(chunks)), FencedCode(Head(chunks)) >>))
  ELSE SplitFrom(Tail(chunks), Append(run, Head(chunks)), segments)

splitTextIntoSegments(text) ==
  LET segments == SplitFrom(text, << >>, << >>) IN
  IF segments = << >> THEN << << "text", "", text >> >> ELSE segments

\* the patterns of lines 411-422 that match a tool id (case-insensitive
\* substring search), on the sample tool ids
PatternsOf(toolId) ==
  CASE toolId = "runSubagent" -> { "runSubagent", "run" }
    [] toolId = "runSubagent_applyPatch" -> { "runSubagent", "applyPatch", "run" }
    [] toolId = "copilot_applyPatch" -> { "applyPatch" }
    [] toolId = "copilot_applyPatchReplaceString" -> { "applyPatch", "replaceString" }
    [] toolId = "copilot_replaceString" -> { "replaceString" }
    [] toolId = "copilot_multiReplaceString" -> { "multiReplaceString", "replaceString" }
    [] toolId = "copilot_replaceStringTest" -> { "replaceString", "test" }
    [] toolId = "runTests" -> { "runTests", "test", "run" }
    [] toolId = "copilot_readTestResults" -> { "test", "read" }
    [] toolId = "copilot_readFile" -> { "read" }
    [] toolId = "copilot_readSearchResults" -> { "read", "search" }
    [] toolId = "copilot_searchCodebase" -> { "search" }
    [] toolId = "browser_searchNavigate" -> { "search", "navigate" }
    [] toolId = "browser_navigate" -> { "navigate" }
    [] toolId = "browser_navigateClick" -> { "navigate", "click" }
    [] toolId = "browser_click" -> { "click" }
    [] toolId = "browser_clickType" -> { "click", "type" }
    [] toolId = "browser_type" -> { "type" }
    [] toolId = "browser_typeScreenshot" -> { "type", "screenshot" }
    [] toolId = "browser_take_screenshot" -> { "screenshot" }
    [] toolId = "browser_snapshot" -> { "snapshot" }
    [] toolId = "browser_snapshotRun" -> { "snapshot", "run" }
    [] toolId = "copilot_runInTerminal" -> { "run" }
    [] toolId = "copilot_runTodo" -> { "run", "todo" }
    [] toolId = "manage_todo_list" -> { "todo" }
    [] OTHER -> { }

\* mapToolIdToType with the read pattern tried before the test patterns
mapToolIdToTypeReadFirst(toolId) ==
  LET p == PatternsOf(toolId) IN
  IF "runSubagent" \in p THEN "subagent"
  ELSE IF "applyPatch" \in p THEN "patch"
  ELSE IF p \cap { "multiReplaceString", "replaceString" } # {} THEN "replace"
  ELSE IF "read" \in p THEN "read"
  ELSE IF p \cap { "runTests", "test" } # {} THEN "test"
  ELSE IF "search" \in p THEN "search"
  ELSE IF "navigate" \in p THEN "navigate"
  ELSE IF "click" \in p THEN "click"
  ELSE IF "type" \in p THEN "type"
  ELSE IF p \cap { "screenshot", "snapshot" } # {} THEN "screenshot"
  ELSE IF "run" \in p THEN "run"
  ELSE IF "todo" \in p THEN "todo"
  ELSE "other"

\* JsonLogParser.mapToolIdToType
mapToolIdToType(toolId) ==
  LET p == PatternsOf(toolId) IN
  IF "runSubagent" \in p THEN "subagent"
  ELSE IF "applyPatch" \in p THEN "patch"
  ELSE IF p \cap { "multiReplaceString", "replaceString" } # {} THEN "replace"
  ELSE IF p \cap { "runTests", "test" } # {} THEN "test"
  ELSE IF "read" \in p THEN "read"
  ELSE IF "search" \in p THEN "search"
  ELSE IF "navigate" \in p THEN "navigate"
  ELSE IF "click" \in p THEN "click"
  ELSE IF "type" \in p THEN "type"
  ELSE IF p \cap { "screenshot", "snapshot" } # {} THEN "screenshot"
  ELSE IF "run" \in p THEN "run"
  ELSE IF "todo" \in p THEN "todo"
  ELSE "other"

\* /^Searched\b/.test(rawAction)
StartsWithSearched(rawAction) ==
  rawAction \in { "Searched codebase", "Searched text for x, 1 result",
                  "Searched for y, No Matches" }

\* countSource.match(/(\d+)\s+results?/): << parseInt(group 1) >>, or << >>
CountMatch(countSource) ==
  CASE countSource = "3 results" -> << 3 >>
    [] countSource = "0 results" -> << 0 >>
    [] countSource = "Found 5 results" -> << 5 >>
    [] countSource = "Searched text for x, 1 result" -> << 1 >>
    [] OTHER -> << >>

\* /\b(no results|no matches)\b/i.test(countSource)
NoResultsMatch(countSource) ==
  countSource \in { "Searched for y, No Matches", "No matches found",
                    "Search for \"no results\"" }

\* lines 370-377 with the candidate taken from the action text first
JsonNormalizedResultCountActionFirst(output, rawAction) ==
  LET countSource == IF rawAction # "" THEN rawAction ELSE output IN
  IF CountMatch(countSource) # << >> THEN CountMatch(countSource)
  ELSE IF NoResultsMatch(countSource) \/ output = "0 results" THEN << 0 >>
  ELSE << >>

\* lines 370-377: normalizedResultCount, << >> when it stays undefined
JsonNormalizedResultCount(output, rawAction) ==
  LET countSource == IF output # "" THEN output ELSE rawAction IN
  IF CountMatch(countSource) # << >> THEN CountMatch(countSource)
  ELSE IF NoResultsMatch(countSource) \/ output = "0 results" THEN << 0 >>
  ELSE << >>

\* JsonLogParser.parseToolCallFromItem: the ToolCall object of an item
parseToolCallFromItem(item) ==
  LET rawAction == item.message
      type == mapToolIdToType(item.toolId)
  IN [ type |-> IF type # "search" /\ StartsWithSearched(rawAction)
                THEN "search" ELSE type,
       rawAction |-> rawAction,
       output |-> item.output,
       normalizedResultCount |-> JsonNormalizedResultCount(item.output, rawAction),
       toolCallId |-> item.toolCallId,
       isSubagentRoot |-> "runSubagent" \in PatternsOf(item.toolId),
       fromSubAgent |-> item.fromSubAgent = TRUE,
       subAgentCalls |-> << >>,
       fileEdits |-> << >> ]

\* the locals of JsonLogParser.parse and of the parseResponse call in
\* progress; input is the part of the document read so far
JsonInit ==
  [ messages |-> << >>, input |-> << >>, items |-> 0,
    contentSegments |-> << >>, order |-> 0, accumulatedText |-> << >>,
    lastTopLevelToolCall |-> 0, seenThinkingIds |-> {}, heap |-> << >> ]

\* flushAccumulatedText, lines 162-173
RECURSIVE PushSplit(_, _)
PushSplit(st, split) ==
  IF split = << >> THEN st
  ELSE LET seg == Head(split)
           pushed == IF seg[1] = "text" THEN TextSeg(seg[3], st.order)
                     ELSE CodeSeg(seg[2], seg[3], st.order)
       IN PushSplit([ st EXCEPT !.contentSegments = Append(@, pushed),
                                !.order = @ + 1 ],
                    Tail(split))

flushAccumulatedText(st) ==
  IF st.accumulatedText = << >> THEN st
  ELSE [ PushSplit(st, splitTextIntoSegments(st.accumulatedText))
           EXCEPT !.accumulatedText = << >> ]

\* the test of a thinking item without the set of the ids seen
ThinkingEmittedAnyId(st, item) == item.value # "" /\ ~item.done

\* lines 195-215: a thinking item
ThinkingEmitted(st, item) ==
  /\ item.value # "" /\ ~item.done
  /\ ~(item.id # "" /\ item.id \in st.seenThinkingIds)

ThinkingBranch(st, item) ==
  IF ~ThinkingEmitted(st, item) THEN st
  ELSE LET st1 == flushAccumulatedText(
                    [ st EXCEPT !.seenThinkingIds =
                        IF item.id # "" THEN @ \cup {item.id} ELSE @ ])
       IN [ st1 EXCEPT
              !.contentSegments = Append(@, ThinkingSeg(<< item.value >>, st1.order)),
              !.order = @ + 1 ]

\* lines 218-231: an inline reference
InlineReferenceBranch(st, item) ==
  IF item.name # ""
  THEN [ st EXCEPT !.accumulatedText =
           Append(@, IF LooksLikeFilePath(item.name) THEN LinkOf(item.name)
                     ELSE CodeOf(item.name)) ]
  ELSE st

\* lines 233-236: an item with a string value
ValueBranch(st, item) ==
  IF TrimmedNonEmpty(item.value) /\ ~OnlyCodeBlocks(item.value)
  THEN [ st EXCEPT !.accumulatedText = @ \o Chunks(item.value) ]
  ELSE st

\* the nesting with a call of a sub-agent dropped when there is no current
\* top-level call
AttachOrEmitDropOrphan(st, toolCall) ==
  IF toolCall.fromSubAgent /\ st.lastTopLevelToolCall # 0
  THEN [ st EXCEPT
           !.heap = Append([ @ EXCEPT ![st.lastTopLevelToolCall].subAgentCalls =
                                         Append(@, Len(st.heap) + 1) ],
                           toolCall) ]
  ELSE IF toolCall.fromSubAgent THEN st
  ELSE [ st EXCEPT
           !.heap = Append(@, toolCall),
           !.contentSegments = Append(@, ToolSeg(Len(st.heap) + 1, st.order)),
           !.order = @ + 1,
           !.lastTopLevelToolCall = Len(st.heap) + 1 ]

\* the nesting with every emitted call made the current top-level call
AttachOrEmitAnyPointer(st, toolCall) ==
  IF toolCall.fromSubAgent /\ st.lastTopLevelToolCall # 0
  THEN [ st EXCEPT
           !.heap = Append([ @ EXCEPT ![st.lastTopLevelToolCall].subAgentCalls =
                                         Append(@, Len(st.heap) + 1) ],
                           toolCall) ]
  ELSE [ st EXCEPT
           !.heap = Append(@, toolCall),
           !.contentSegments = Append(@, ToolSeg(Len(st.heap) + 1, st.order)),
           !.order = @ + 1,
           !.lastTopLevelToolCall = Len(st.heap) + 1 ]

\* lines 249-255: nest the call or emit it as a segment
AttachOrEmit(st, toolCall) ==
  IF toolCall.fromSubAgent /\ st.lastTopLevelToolCall # 0
  THEN [ st EXCEPT
           !.heap = Append([ @ EXCEPT ![st.lastTopLevelToolCall].subAgentCalls =
                                         Append(@, Len(st.heap) + 1) ],
                           toolCall) ]
  ELSE [ st EXCEPT
           !.heap = Append(@, toolCall),
           !.contentSegments = Append(@, ToolSeg(Len(st.heap) + 1, st.order)),
           !.order = @ + 1,
           !.lastTopLevelToolCall =
              IF ~toolCall.fromSubAgent THEN Len(st.heap) + 1 ELSE @ ]

\* the tool-invocation branch without the flush of the accumulated text
ToolInvocationBranchNoFlush(st, item) ==
  AttachOrEmit(st, parseToolCallFromItem(item))

\* lines 237-257: a serialized tool invocation
ToolInvocationBranch(st, item) ==
  AttachOrEmit(flushAccumulatedText(st), parseToolCallFromItem(item))

\* the branch of the loop body of parseResponse (lines 175-258)
JsonRuleOf(item) ==
  CASE item.kind # Undefined /\ item.kind \in skipKinds -> "skip"
    [] item.kind = "thinking" -> "thinking"
    [] item.kind = "inlineReference" -> "inlineReference"
    [] item.value # "" -> "value"
    [] item.kind = "toolInvocationSerialized" -> "toolInvocation"
    [] OTHER -> "none"

ProcessItem(st, item) ==
  LET rule == JsonRuleOf(item) IN
  CASE rule = "thinking" -> ThinkingBranch(st, item)
    [] rule = "inlineReference" -> InlineReferenceBranch(st, item)
    [] rule = "value" -> ValueBranch(st, item)
    [] rule = "toolInvocation" -> ToolInvocationBranch(st, item)
    [] OTHER -> st

\* lines 79-93: the user message of a request
JsonUserMessage(requestId, text) ==
  [ id |-> << requestId, "" >>, role |-> "user",
    contentSegments |-> << TextSeg(<< text >>, 0) >> ]

\* parseResponse started behind the user message of the request, with the
\* order of its segments continued
BeginResponseContinued(st) ==
  [ st EXCEPT !.contentSegments = << >>, !.order = 1,
              !.accumulatedText = << >>, !.lastTopLevelToolCall = 0,
              !.seenThinkingIds = {} ]

\* the start of parseResponse(requestId, response, 0, ...): lines 154-160
BeginResponse(st) ==
  [ st EXCEPT !.contentSegments = << >>, !.order = 0,
              !.accumulatedText = << >>, !.lastTopLevelToolCall = 0,
              !.seenThinkingIds = {} ]

\* lines 436-441 of collectFileEdits: the trimmed value is neither empty nor
\* a fence marker (trimmed !== "'''" && !trimmed.match(/^'''\w*$/))
IsSubstantive(v) == v \notin {"", "  ", "'''", "'''ts"}

\* lines 449-463: the first edit of every non-empty array of item.edits,
\* with the path of the item
RECURSIVE FirstEdits(_, _)
FirstEdits(uri, edits) ==
  IF edits = << >> THEN << >>
  ELSE LET editArray == Head(edits) IN
       IF editArray = << >> THEN FirstEdits(uri, Tail(edits))
       ELSE << [ filePath |-> uri, text |-> editArray[1] ] >>
              \o FirstEdits(uri, Tail(edits))

\* the loop of collectFileEdits from position i (1-based) on
RECURSIVE CollectFrom(_, _, _)
CollectFrom(responseItems, i, fileEdits) ==
  IF i > Len(responseItems) THEN fileEdits
  ELSE LET item == responseItems[i] IN
       IF item.value # "" /\ IsSubstantive(item.value) THEN fileEdits
       ELSE IF item.kind = "textEditGroup" /\ item.uri # "" /\ item.edits # << >>
            THEN CollectFrom(responseItems, i + 1,
                             fileEdits \o FirstEdits(item.uri, item.edits))
            ELSE CollectFrom(responseItems, i + 1, fileEdits)

\* JsonLogParser.collectFileEdits, lines 426-468
collectFileEdits(responseItems, startIndex) ==
  CollectFrom(responseItems, startIndex, << >>)

\* the tool calls of the response in progress: those of its segments and
\* the calls nested in them
ResponseCalls(st) ==
  LET top == { st.contentSegments[k].toolCall :
                 k \in { j \in DOMAIN st.contentSegments :
                           IsToolSeg(st.contentSegments[j]) } }
  IN top \cup UNION { { st.heap[t].subAgentCalls[k] :
                          k \in DOMAIN st.heap[t].subAgentCalls } : t \in top }

\* lines 241-248: the file edits of a replaceString or multiReplaceString
\* call, set when there are any (<< >> is unset). The code looks ahead from
\* the invocation to the following items; here the items are read one by
\* one, so the look-ahead of every call of the response is evaluated when
\* the response array ends. Nothing reads fileEdits before that.
WithFileEdits(st, responseItems) ==
  [ st EXCEPT !.heap =
      [ h \in DOMAIN @ |->
          IF /\ h \in ResponseCalls(st)
             /\ responseItems[@[h].toolCallId].toolId
                  \in {"copilot_multiReplaceString", "copilot_replaceString"}
          THEN LET fileEdits ==
                     collectFileEdits(responseItems, @[h].toolCallId + 1)
               IN IF fileEdits # << >>
                  THEN [ @[h] EXCEPT !.fileEdits = << fileEdits >> ]
                  ELSE @[h]
          ELSE @[h] ] ]

\* lines 260-262 and 117-119: the end of parseResponse
EndResponse(st0, requestId) ==
  LET st == WithFileEdits(st0, st0.input[requestId].response)
      st1 == flushAccumulatedText(st) IN
  IF st1.contentSegments = << >> THEN st1
  ELSE [ st1 EXCEPT !.messages =
           Append(@, [ id |-> << requestId, "_response" >>, role |-> "assistant",
                       contentSegments |-> st1.contentSegments ]) ]

\* ---------------------------------------------- ChatReplay parser: logs
\* a log entry of a prompt; thinking is the sequence of the ids of the
\* thinking entries of response.content and of requestMessages, message is
\* response.message.join('').trim(), args is "ok" when JSON.parse accepts
\* log.args, query is args.query and response the string made of
\* log.response ("" when there is none)
Log(kind, type, thinking, message, tool, args, fromSubAgent) ==
  [ kind |-> kind, type |-> type, thinking |-> thinking, message |-> message,
    tool |-> tool, args |-> args, fromSubAgent |-> fromSubAgent, id |-> 0,
    query |-> "", response |-> "" ]

GReq == Log("request", "ChatMLSuccess", << >>, "First attempt", "", "", FALSE)
GReqThink == Log("request", "ChatMLSuccess", << "t1" >>, "", "", "", FALSE)
GCancel == Log("request", "ChatMLCancelation", << >>, "", "", "", FALSE)
GElement == Log("element", "", << >>, "", "", "", FALSE)
GTool == Log("toolCall", "", << >>, "", "read_file", "ok", FALSE)
GSub == Log("toolCall", "", << >>, "", "read_file", "ok", TRUE)
GRoot == Log("toolCall", "", << >>, "", "runSubagent", "ok", FALSE)
GBadArgs == Log("toolCall", "", << >>, "", "read_file", "invalid", FALSE)

Logs == { GReq, GReqThink, GCancel, GElement, GTool, GSub, GRoot, GBadArgs }

\* toolCall entries with a response and a query
GSearch5 ==
  [ Log("toolCall", "", << >>, "", "grep_search", "ok", FALSE)
      EXCEPT !.response = "Found 5 results" ]
GSearchNone ==
  [ Log("toolCall", "", << >>, "", "grep_search", "ok", FALSE)
      EXCEPT !.response = "No matches found" ]
GSearchPlain == Log("toolCall", "", << >>, "", "grep_search", "ok", FALSE)
GSearchQuery ==
  [ Log("toolCall", "", << >>, "", "grep_search", "ok", FALSE)
      EXCEPT !.query = "no results" ]
GReadCount ==
  [ Log("toolCall", "", << >>, "", "read_file", "ok", FALSE)
      EXCEPT !.response = "Found 5 results" ]

CountLogs == { GSearch5, GSearchNone, GSearchPlain, GSearchQuery, GReadCount }

PromptTexts == { "A", "B" }

\* ChatReplayParser.mapToolNameToType
mapToolNameToType(toolName) ==
  CASE toolName = "runSubagent" -> "subagent"
    [] toolName = "read_file" -> "read"
    [] toolName = "grep_search" -> "search"
    [] OTHER -> "other"

\* ChatReplayParser.generateActionLabel; query is args.query, "" when the
\* arguments have none
generateActionLabel(toolName, query) ==
  CASE toolName = "read_file" -> "Read file"
    [] toolName = "grep_search" ->
         IF query = "no results" THEN "Search for \"no results\"" ELSE "Search"
    [] toolName = "runSubagent" -> "Run subagent"
    [] OTHER -> toolName

\* lines 270-280: normalizedResultCount, << >> when it stays undefined
ReplayNormalizedResultCount(type, output, action) ==
  IF type = "search"
  THEN LET countSource == IF output # "" THEN output ELSE action IN
       IF CountMatch(countSource) # << >> THEN CountMatch(countSource)
       ELSE IF NoResultsMatch(countSource) THEN << 0 >>
       ELSE << >>
  ELSE << >>

\* lines 282-296: the ToolCall object
ReplayToolCallObject(log) ==
  LET type == mapToolNameToType(log.tool)
      action == generateActionLabel(log.tool, log.query)
  IN [ type |-> type,
       action |-> action,
       rawAction |-> action,
       output |-> log.response,
       normalizedResultCount |->
         ReplayNormalizedResultCount(type, log.response, action),
       toolCallId |-> log.id,
       isSubagentRoot |-> type = "subagent",
       fromSubAgent |-> FALSE,
       subAgentCalls |-> << >> ]

\* parseToolCall with the failure of JSON.parse(log.args) swallowed
ReplayToolCallAnyArgs(log) == << ReplayToolCallObject(log) >>

\* ChatReplayParser.parseToolCall: << the ToolCall object >>, or << >> for
\* the null of the catch block.  The object literal of lines 282-291 has no
\* fromSubAgent property, and nothing sets one afterwards.
ReplayToolCall(log) ==
  IF log.args # "ok" THEN << >> ELSE << ReplayToolCallObject(log) >>

\* the locals of ChatReplayParser.parse; input is the part of the document
\* read so far, as the sequence of the prompts with their logs
ReplayInit ==
  [ messages |-> << >>, input |-> << >>, logs |-> 0,
    assistantSegments |-> << >>, currentOrder |-> 0, accumulatedText |-> << >>,
    lastTopLevelToolCall |-> 0, heap |-> << >> ]

\* lines 100-117: the user message of a prompt and the locals of its
\* assistant response
ReplayUserMessage(st, prompt) ==
  [ id |-> << "prompt", Len(st.messages) >>, role |-> "user",
    contentSegments |-> << TextSeg(<< prompt >>, 0) >> ]

BeginPrompt(st, prompt) ==
  [ st EXCEPT !.messages = Append(@, ReplayUserMessage(st, prompt)),
              !.input = Append(@, [ prompt |-> prompt, logs |-> << >> ]),
              !.assistantSegments = << >>, !.currentOrder = 0,
              !.accumulatedText = << >>, !.lastTopLevelToolCall = 0 ]

\* the flush of lines 122-129, 181-188 and 210-216: accumulatedText is the
\* sequence of the response texts appended to it, each followed by '\n'
ReplayFlush(st) ==
  IF st.accumulatedText # << >>
  THEN [ st EXCEPT
           !.assistantSegments = Append(@, TextSeg(st.accumulatedText, st.currentOrder)),
           !.currentOrder = @ + 1,
           !.accumulatedText = << >> ]
  ELSE st

\* lines 135-170: one thinking segment for each thinking entry
RECURSIVE PushThinking(_, _)
PushThinking(st, ids) ==
  IF ids = << >> THEN st
  ELSE PushThinking(
         [ st EXCEPT
             !.assistantSegments = Append(@, ThinkingSeg(<< Head(ids) >>, st.currentOrder)),
             !.currentOrder = @ + 1 ],
         Tail(ids))

\* lines 120-178: a successful request entry
RequestBranch(st, log) ==
  LET st1 == PushThinking(ReplayFlush(st), log.thinking) IN
  IF log.message # ""
  THEN [ st1 EXCEPT !.accumulatedText = Append(@, log.message) ]
  ELSE st1

\* lines 192-204: nest the call or emit it as a segment
ReplayAttachOrEmit(st, toolCall) ==
  IF toolCall.fromSubAgent /\ st.lastTopLevelToolCall # 0
  THEN [ st EXCEPT
           !.heap = Append([ @ EXCEPT ![st.lastTopLevelToolCall].subAgentCalls =
                                         Append(@, Len(st.heap) + 1) ],
                           toolCall) ]
  ELSE [ st EXCEPT
           !.heap = Append(@, toolCall),
           !.assistantSegments = Append(@, ToolSeg(Len(st.heap) + 1, st.currentOrder)),
           !.currentOrder = @ + 1,
           !.lastTopLevelToolCall =
              IF ~toolCall.fromSubAgent THEN Len(st.heap) + 1 ELSE @ ]

\* lines 179-206: a toolCall entry
ReplayToolCallBranch(st, log) ==
  LET st1 == ReplayFlush(st)
      toolCall == ReplayToolCall(log)
  IN IF toolCall # << >> THEN ReplayAttachOrEmit(st1, toolCall[1]) ELSE st1

\* the branch of the loop body of lines 119-207
ReplayRuleOf(log) ==
  CASE log.kind = "request" /\ log.type = "ChatMLSuccess" -> "request"
    [] log.kind = "toolCall" -> "toolCall"
    [] OTHER -> "none"

ProcessLog(st, log) ==
  LET rule == ReplayRuleOf(log) IN
  CASE rule = "request" -> RequestBranch(st, log)
    [] rule = "toolCall" -> ReplayToolCallBranch(st, log)
    [] OTHER -> st

\* lines 209-225: the end of a prompt
EndPrompt(st) ==
  LET st1 == ReplayFlush(st) IN
  IF Len(st1.assistantSegments) > 0
  THEN [ st1 EXCEPT !.messages =
           Append(@, [ id |-> << "response", Len(st1.messages) >>, role |-> "assistant",
                       contentSegments |-> st1.assistantSegments ]) ]
  ELSE st1

\* ------------------------------------------------------ format detector
\* the top-level shape of the input string: whether the trimmed string
\* starts with '{', whether JSON.parse accepts it, and the values of the
\* properties prompts, exportedAt and requests of the parsed object:
\*   "absent"  the property is missing
\*   "array"   an array
\*   "other"   a value that is neither falsy nor iterable, such as {}
\*   "falsy"   a falsy value, such as "" or null
\*   "truthy"  a truthy scalar, such as "2025-12-02T08:45:40.568Z"
\* family names the sample elements (lines, response items) the document
\* is made of
NoShape(brace, jsonOk) ==
  [ brace |-> brace, jsonOk |-> jsonOk, prompts |-> "absent",
    exportedAt |-> "absent", requests |-> "absent", family |-> "plain" ]

Shapes ==
  { NoShape(FALSE, FALSE), NoShape(FALSE, TRUE), NoShape(TRUE, FALSE) }
  \cup [ brace : {TRUE}, jsonOk : {TRUE},
         prompts : {"absent", "array", "other"},
         exportedAt : {"absent", "falsy", "truthy"},
         requests : {"absent", "array", "other"},
         family : {"plain"} ]

\* the detector with the test 'exportedAt' in parsed
detectLogFormatAnyExportedAt(content) ==
  IF content.brace /\ content.jsonOk
  THEN IF content.prompts = "array" /\ content.exportedAt # "absent"
       THEN "chatreplay"
       ELSE IF content.requests = "array" THEN "json" ELSE "text"
  ELSE "text"

\* src/lib/parser/format-detector.ts
detectLogFormat(content) ==
  IF content.brace
  THEN IF content.jsonOk
       THEN IF content.prompts # "absent" /\ content.prompts = "array"
               /\ content.exportedAt = "truthy"
            THEN "chatreplay"
            ELSE IF content.requests # "absent" /\ content.requests = "array"
            THEN "json"
            ELSE "text"
       ELSE "text"
  ELSE "text"

\* ------------------------------------------------------------- the state
VARIABLES
  call,     \* the function that was called on the input
  content,  \* the top-level shape of the input string
  pc,       \* where the call is
  format,   \* the value of detectLogFormat, "none" before it ran
  parser,   \* the parser the call runs: "text", "json", "chatreplay" or "none"
  tp,       \* the state of CopilotLogParser.parse
  jp,       \* the state of JsonLogParser.parse
  cr,       \* the state of ChatReplayParser.parse
  result,   \* what the call returned or threw
  trace,    \* the calls of parse made on one CopilotLogParser instance
  storage,  \* the browser: window and the localStorage item of the history
  tf,       \* a call of truncateFilename: its arguments and its value
  tc,       \* a call of parseToolCallFromItem: its arguments and its value
  gf        \* a call of GistFetcher.fetchGist: its attempts and its outcome

vars ==
  << call, content, pc, format, parser, tp, jp, cr, result, trace, storage, tf,
     tc, gf >>

Calls == { "detectLogFormat", "parseLog", "parseJsonLog", "parseChatReplayLog" }

\* the documents given to the parsers: a plain text, a JSON text that is
\* no object, a malformed object, an object without any of the properties,
\* a JSON export, a chat replay, a chat replay whose exportedAt is empty,
\* and an object with the properties of both
PlainText == NoShape(FALSE, FALSE)
JsonExport == [ NoShape(TRUE, TRUE) EXCEPT !.requests = "array" ]
ChatReplay == [ NoShape(TRUE, TRUE) EXCEPT !.prompts = "array", !.exportedAt = "truthy" ]
ChatReplayNoDate == [ NoShape(TRUE, TRUE) EXCEPT !.prompts = "array", !.exportedAt = "falsy" ]
BothShapes == [ JsonExport EXCEPT !.prompts = "array", !.exportedAt = "truthy" ]

Malformed == { NoShape(FALSE, TRUE), NoShape(TRUE, FALSE), NoShape(TRUE, TRUE) }

\* the inputs of a call; parseLog is the only caller of the text parser and
\* the caller of the JSON export parser on a well-formed export
InputsOf(c) ==
  CASE c = "detectLogFormat" -> Shapes
    [] c = "parseLog" ->
         { PlainText, [ PlainText EXCEPT !.family = "search" ],
           [ PlainText EXCEPT !.family = "tasks" ],
           NoShape(FALSE, TRUE), NoShape(TRUE, TRUE), JsonExport,
           [ JsonExport EXCEPT !.family = "thinking" ],
           [ JsonExport EXCEPT !.family = "edits" ],
           [ JsonExport EXCEPT !.family = "counts" ],
           [ JsonExport EXCEPT !.family = "blank" ],
           ChatReplay, ChatReplayNoDate, BothShapes }
    [] c = "parseJsonLog" -> { PlainText, ChatReplay } \cup Malformed
    [] OTHER ->
         { PlainText, JsonExport, ChatReplay, [ ChatReplay EXCEPT !.family = "counts" ],
           [ ChatReplay EXCEPT !.family = "blank" ] }
           \cup Malformed

NoMetadata == [ totalMessages |-> 0, toolCallCount |-> 0, fileCount |-> 0 ]

NoResult ==
  [ status |-> "none", error |-> "", messages |-> << >>, metadata |-> NoMetadata ]

Returned(session) ==
  [ status |-> "session", error |-> "", messages |-> session.messages,
    metadata |-> session.metadata ]

Thrown(message) ==
  [ status |-> "error", error |-> message, messages |-> << >>,
    metadata |-> NoMetadata ]

\* the state of the parts of the program a call of a parser does not touch:
\* no call made on a parser instance yet, no browser storage, no call of
\* truncateFilename
NoTrace == [ read |-> << >>, earlier |-> << >> ]

NoStorage == [ window |-> FALSE, item |-> << >> ]

NoTruncate == [ filename |-> << >>, maxLength |-> 0, value |-> << >>, returned |-> FALSE ]

NoToolCall == [ returned |-> FALSE ]

NoFetch == [ attempt |-> 0, at |-> "none", outcomes |-> << >> ]

Init ==
  /\ call \in Calls
  /\ content \in InputsOf(call)
  /\ pc = "start"
  /\ format = "none"
  /\ parser = "none"
  /\ tp = TextInit
  /\ jp = JsonInit
  /\ cr = ReplayInit
  /\ result = NoResult
  /\ trace = NoTrace
  /\ storage = NoStorage
  /\ tf = NoTruncate
  /\ tc = NoToolCall
  /\ gf = NoFetch

\* the lines of the logs parsed again on one parser instance
ReuseLines == { LUser, LAsst, LText }

\* the lines of an input string: a string that is a JSON text has no line
\* that starts a message, a fence or a search
LinesOf(c) ==
  CASE c.jsonOk -> { LJsonDoc }
    [] c.family = "search" -> SearchLines
    [] c.family = "tasks" -> TaskLines
    [] c.family = "reuse" -> ReuseLines
    [] OTHER -> Lines

\* the requests of a JSON export and the prompts of a ChatReplay export
\* read at most: the exports of the families edits and counts hold one
RequestsOf(c) ==
  IF c.family \in {"edits", "counts", "blank"} THEN 1 ELSE MaxRequests

PromptsOf(c) == IF c.family \in {"counts", "blank"} THEN 1 ELSE MaxPrompts

\* the prompt texts of a ChatReplay export, by the family of the document:
\* the prompts of the family blank are empty or white space
PromptTextsOf(c) == IF c.family = "blank" THEN { "", "  " } ELSE PromptTexts

\* the log entries of a ChatReplay export, by the family of the document
LogsOf(c) == IF c.family = "counts" THEN CountLogs ELSE Logs

\* the text logs, by the family of the document
PlainSearch == [ PlainText EXCEPT !.family = "search" ]

PlainTasks == [ PlainText EXCEPT !.family = "tasks" ]

PlainTexts == { PlainText, PlainSearch, PlainTasks }

\* the response items of a JSON export, by the family of the document
JsonThinking == [ JsonExport EXCEPT !.family = "thinking" ]

JsonEdits == [ JsonExport EXCEPT !.family = "edits" ]

JsonCounts == [ JsonExport EXCEPT !.family = "counts" ]

JsonBlank == [ JsonExport EXCEPT !.family = "blank" ]

JsonExports == { JsonExport, JsonThinking, JsonEdits, JsonCounts, JsonBlank }

ItemsOf(c) ==
  CASE c.family = "thinking" -> ThinkingItems
    [] c.family = "edits" -> EditItems
    [] c.family = "counts" -> CountItems
    [] c.family = "blank" -> { IText, IFenceOnly }
    [] OTHER -> Items

\* a call of detectLogFormat
DetectFormat ==
  /\ pc = "start" /\ call = "detectLogFormat"
  /\ format' = detectLogFormat(content)
  /\ pc' = "done"
  /\ result' = [ NoResult EXCEPT !.status = "format" ]
  /\ UNCHANGED << tc, gf, trace, storage, tf, call, content, parser, tp, jp, cr >>

\* src/lib/parser/index.ts, parseLog: detect the format and run the parser
parseLogParser(fmt) == IF fmt = "json" THEN "json" ELSE "text"

ParseLog ==
  /\ pc = "start" /\ call = "parseLog"
  /\ format' = detectLogFormat(content)
  /\ parser' = parseLogParser(detectLogFormat(content))
  /\ pc' = parseLogParser(detectLogFormat(content))
  /\ UNCHANGED << tc, gf, trace, storage, tf, call, content, tp, jp, cr, result >>

\* one iteration of the loop of CopilotLogParser.parse, handled by rule
TextLine(rule) ==
  /\ pc = "text" /\ tp.i < MaxLines
  /\ \E line \in LinesOf(content) :
       /\ RuleOf(tp, line) = rule
       /\ tp' = [ ProcessLine(tp, line) EXCEPT !.i = @ + 1 ]
  /\ UNCHANGED << tc, gf, trace, storage, tf, call, content, pc, format, parser, jp, cr, result >>

MultiSearchLine == TextLine("multiSearch")
FenceLine == TextLine("fence")
CodeLine == TextLine("codeLine")
ToolInputLine == TextLine("toolInput")
UserLine == TextLine("user")
AssistantLine == TextLine("assistant")
FileRefLine == TextLine("fileRef")
CompletedWithInputLine == TextLine("completedWithInput")
ToolCallLine == TextLine("toolCall")
TaskLine == TextLine("task")
ContentLine == TextLine("content")

\* the end of the input: lines 295-308
TextReturn ==
  /\ pc = "text"
  /\ tp' = TextFinish(tp)
  /\ result' = Returned(TextSession(TextFinish(tp)))
  /\ pc' = "done"
  /\ UNCHANGED << tc, gf, trace, storage, tf, call, content, format, parser, jp, cr >>

NextText ==
  \/ ParseLog
  \/ MultiSearchLine \/ FenceLine \/ CodeLine \/ ToolInputLine \/ UserLine
  \/ AssistantLine \/ FileRefLine \/ CompletedWithInputLine \/ ToolCallLine
  \/ TaskLine \/ ContentLine
  \/ TextReturn

\* ------------------------------------------------ JSON export: actions
\* a direct call of parseJsonLog
CallJsonParser ==
  /\ pc = "start" /\ call = "parseJsonLog"
  /\ parser' = "json"
  /\ pc' = "json"
  /\ UNCHANGED << tc, gf, trace, storage, tf, call, content, format, tp, jp, cr, result >>

JsonError == "Invalid JSON chat export format"

\* line 74 and the head of the loop of line 77: JSON.parse(jsonText) and
\* the iteration of data.requests
JsonDocumentOk(c) == c.jsonOk /\ c.requests = "array"

JsonParse ==
  /\ pc = "json"
  /\ IF JsonDocumentOk(content)
     THEN pc' = "json_requests" /\ result' = result
     ELSE pc' = "done" /\ result' = Thrown(JsonError)
  /\ UNCHANGED << tc, gf, trace, storage, tf, call, content, format, parser, tp, jp, cr >>

\* the requests and the items read so far
JsonWork(st) == Len(st.input) + st.items

\* lines 77-121: a request with a message; text is message.text, and
\* response is "absent" for a request without a response array
VRequest == "Test"

Requests ==
  { [ text |-> VRequest, response |-> "items" ],
    [ text |-> VRequest, response |-> "absent" ],
    [ text |-> "", response |-> "absent" ] }

\* the requests of a JSON export, by the family of the document: the
\* message text of the family blank is white space
RequestSamplesOf(c) ==
  IF c.family = "blank"
  THEN { [ text |-> "  ", response |-> "items" ],
         [ text |-> "  ", response |-> "absent" ] }
  ELSE Requests

JsonRequest ==
  /\ pc = "json_requests" /\ Len(jp.input) < RequestsOf(content)
  /\ JsonWork(jp) < MaxJsonWork
  /\ \E request \in RequestSamplesOf(content) :
       LET text == request.text
           response == request.response
           requestId == Len(jp.input) + 1
           st1 == [ jp EXCEPT
                      !.input = Append(@, [ text |-> text, response |-> << >> ]),
                      !.messages = IF text # ""
                                   THEN Append(@, JsonUserMessage(requestId, text))
                                   ELSE @ ]
       IN IF response = "items"
          THEN /\ JsonWork(st1) < MaxJsonWork
               /\ jp' = BeginResponse(st1)
               /\ pc' = "json_response"
          ELSE /\ jp' = st1
               /\ pc' = pc
  /\ UNCHANGED << tc, gf, trace, storage, tf, call, content, format, parser, tp, cr, result >>

\* line 79 on a request without a message: the TypeError is caught at
\* line 131
JsonRequestThrows ==
  /\ pc = "json_requests" /\ Len(jp.input) < RequestsOf(content)
  /\ result' = Thrown(JsonError)
  /\ pc' = "done"
  /\ UNCHANGED << tc, gf, trace, storage, tf, call, content, format, parser, tp, jp, cr >>

\* one iteration of the loop of parseResponse, handled by rule
JsonItem(rule) ==
  /\ pc = "json_response" /\ JsonWork(jp) < MaxJsonWork
  /\ \E sample \in ItemsOf(content) :
       LET n == Len(jp.input)
           item == [ sample EXCEPT !.toolCallId = Len(jp.input[n].response) + 1 ]
       IN /\ JsonRuleOf(item) = rule
          /\ jp' = [ ProcessItem(jp, item) EXCEPT
                       !.items = @ + 1,
                       !.input[n].response = Append(@, item) ]
  /\ UNCHANGED << tc, gf, trace, storage, tf, call, content, pc, format, parser, tp, cr, result >>

SkippedItem == JsonItem("skip")
ThinkingItem == JsonItem("thinking")
InlineReferenceItem == JsonItem("inlineReference")
ValueItem == JsonItem("value")
ToolInvocationItem == JsonItem("toolInvocation")

\* the end of the response array
JsonResponseEnd ==
  /\ pc = "json_response" /\ Len(Last(jp.input).response) >= 1
  /\ jp' = EndResponse(jp, Len(jp.input))
  /\ pc' = "json_requests"
  /\ UNCHANGED << tc, gf, trace, storage, tf, call, content, format, parser, tp, cr, result >>

\* lines 123-130: the session
JsonReturn ==
  /\ pc = "json_requests"
  /\ result' = Returned(SessionOf(jp.messages, 0))
  /\ pc' = "done"
  /\ UNCHANGED << tc, gf, trace, storage, tf, call, content, format, parser, tp, jp, cr >>

NextJson ==
  \/ ParseLog \/ CallJsonParser \/ JsonParse \/ JsonRequest \/ JsonRequestThrows
  \/ SkippedItem \/ ThinkingItem \/ InlineReferenceItem \/ ValueItem
  \/ ToolInvocationItem \/ JsonResponseEnd \/ JsonReturn

\* -------------------------------------------------- ChatReplay: actions
\* a direct call of parseChatReplayLog
CallReplayParser ==
  /\ pc = "start" /\ call = "parseChatReplayLog"
  /\ parser' = "chatreplay"
  /\ pc' = "chatreplay"
  /\ UNCHANGED << tc, gf, trace, storage, tf, call, content, format, tp, jp, cr, result >>

ReplayError == "Invalid chatreplay format"

\* line 95 and the head of the loop of line 98
ReplayDocumentOk(c) == c.jsonOk /\ c.prompts = "array"

ReplayParse ==
  /\ pc = "chatreplay"
  /\ IF ReplayDocumentOk(content)
     THEN pc' = "replay_prompts" /\ result' = result
     ELSE pc' = "done" /\ result' = Thrown(ReplayError)
  /\ UNCHANGED << tc, gf, trace, storage, tf, call, content, format, parser, tp, jp, cr >>

\* the prompts and the log entries read so far
ReplayWork(st) == Len(st.input) + st.logs

\* lines 98-119: a prompt with a logs array
ReplayPrompt ==
  /\ pc = "replay_prompts" /\ Len(cr.input) < PromptsOf(content)
  /\ ReplayWork(cr) < MaxReplayWork
  /\ \E prompt \in PromptTextsOf(content) : cr' = BeginPrompt(cr, prompt)
  /\ pc' = "replay_logs"
  /\ UNCHANGED << tc, gf, trace, storage, tf, call, content, format, parser, tp, jp, result >>

\* line 119 on a prompt without logs: the TypeError is caught at line 236
ReplayPromptThrows ==
  /\ pc = "replay_prompts" /\ Len(cr.input) < PromptsOf(content)
  /\ result' = Thrown(ReplayError)
  /\ pc' = "done"
  /\ UNCHANGED << tc, gf, trace, storage, tf, call, content, format, parser, tp, jp, cr >>

\* one iteration of the loop over prompt.logs, handled by rule
ReplayLog(rule) ==
  /\ pc = "replay_logs" /\ ReplayWork(cr) < MaxReplayWork
  /\ \E sample \in LogsOf(content) :
       LET n == Len(cr.input)
           log == [ sample EXCEPT !.id = Len(cr.input[n].logs) + 1 ]
       IN /\ ReplayRuleOf(log) = rule
          /\ cr' = [ ProcessLog(cr, log) EXCEPT
                       !.logs = @ + 1,
                       !.input[n].logs = Append(@, log) ]
  /\ UNCHANGED << tc, gf, trace, storage, tf, call, content, pc, format, parser, tp, jp, result >>

RequestLog == ReplayLog("request")
ToolCallLog == ReplayLog("toolCall")
OtherLog == ReplayLog("none")

\* the end of prompt.logs
ReplayPromptEnd ==
  /\ pc = "replay_logs"
  /\ cr' = EndPrompt(cr)
  /\ pc' = "replay_prompts"
  /\ UNCHANGED << tc, gf, trace, storage, tf, call, content, format, parser, tp, jp, result >>

\* lines 228-235: the session
ReplayReturn ==
  /\ pc = "replay_prompts"
  /\ result' = Returned(SessionOf(cr.messages, 0))
  /\ pc' = "done"
  /\ UNCHANGED << tc, gf, trace, storage, tf, call, content, format, parser, tp, jp, cr >>

NextReplay ==
  \/ CallReplayParser \/ ReplayParse \/ ReplayPrompt \/ ReplayPromptThrows
  \/ RequestLog \/ ToolCallLog \/ OtherLog \/ ReplayPromptEnd \/ ReplayReturn

Next == DetectFormat \/ NextText \/ NextJson \/ NextReplay

\* every call on every input
Spec == Init /\ [][Next]_vars

\* the text log parser, on a plain text
InitText == Init /\ call = "parseLog" /\ content \in PlainTexts
SpecText == InitText /\ [][NextText]_vars

\* the JSON export parser
InitJson ==
  /\ Init
  /\ \/ call = "parseLog" /\ content \in JsonExports
     \/ call = "parseJsonLog"
SpecJson == InitJson /\ [][NextJson]_vars

\* the ChatReplay parser
InitReplay == Init /\ call = "parseChatReplayLog"
SpecReplay == InitReplay /\ [][NextReplay]_vars

\* ------------------------------- one parser instance, several calls
\* new CopilotLogParser() followed by calls of parse on it: the counters
\* are fields of the instance and keep their values from call to call,
\* every other piece of the parser's state is a local of parse
\* (lines 31-46)
MaxCalls == 2

PlainReuse == [ PlainText EXCEPT !.family = "reuse" ]

NextCallState(st) ==
  [ TextInit EXCEPT !.messageIdCounter = st.messageIdCounter,
                    !.segmentOrderCounter = st.segmentOrderCounter ]

InitReuse ==
  /\ call = "parse"
  /\ content = PlainReuse
  /\ pc = "text"
  /\ format = "none"
  /\ parser = "text"
  /\ tp = TextInit
  /\ jp = JsonInit
  /\ cr = ReplayInit
  /\ result = NoResult
  /\ trace = NoTrace
  /\ storage = NoStorage
  /\ tf = NoTruncate
  /\ tc = NoToolCall
  /\ gf = NoFetch

\* one iteration of the loop of parse, the line read is remembered
ReuseLine ==
  /\ pc = "text" /\ call = "parse" /\ tp.i < MaxLines
  /\ \E line \in LinesOf(content) :
       /\ tp' = [ ProcessLine(tp, line) EXCEPT !.i = @ + 1 ]
       /\ trace' = [ trace EXCEPT !.read = Append(@, line) ]
  /\ UNCHANGED << tc, gf, storage, tf, call, content, pc, format, parser, jp, cr, result >>

\* the next call of parse on the same instance; the input and the session
\* of the call that returned are remembered
ParseAgain ==
  /\ pc = "done" /\ call = "parse"
  /\ Len(trace.earlier) + 1 < MaxCalls
  /\ tp' = NextCallState(tp)
  /\ trace' = [ read |-> << >>,
                earlier |-> Append(trace.earlier,
                                   [ lines |-> trace.read,
                                     messages |-> result.messages ]) ]
  /\ result' = NoResult
  /\ pc' = "text"
  /\ UNCHANGED << tc, gf, storage, tf, call, content, format, parser, jp, cr >>

NextReuse == ReuseLine \/ TextReturn \/ ParseAgain

SpecReuse == InitReuse /\ [][NextReuse]_vars

\* --------------------------------------------- src/lib/history.ts
\* the ids of the entries added to the history
MaxEntryIds == 10

MAX_HISTORY_ENTRIES == 5

\* the entries given to addToHistory; the timestamp a stored entry gets
\* from Date.now() is left out, no function of history.ts reads it
HistoryEntries == { [ id |-> k, type |-> "gist" ] : k \in 0..(MaxEntryIds - 1) }

\* getHistory: the array stored under HISTORY_KEY, [] without a window and
\* without a stored item; item is << >> for no item and << array >> for
\* the JSON text of an array
getHistory(s) ==
  IF ~s.window THEN << >>
  ELSE IF s.item = << >> THEN << >>
  ELSE s.item[1]

\* addToHistory with the entries of the same id kept
addToHistoryKeepSame(s, entry, ok) ==
  IF ~s.window THEN s
  ELSE LET history == getHistory(s)
           updated == << entry >> \o history
           trimmed == SubSeq(updated, 1,
                             IF Len(updated) < MAX_HISTORY_ENTRIES
                             THEN Len(updated) ELSE MAX_HISTORY_ENTRIES)
       IN IF ok THEN [ s EXCEPT !.item = << trimmed >> ] ELSE s

\* addToHistory with the new entry put behind the others
addToHistoryAtEnd(s, entry, ok) ==
  IF ~s.window THEN s
  ELSE LET history == getHistory(s)
           filtered == SelectSeq(history, LAMBDA e : e.id # entry.id)
           updated == filtered \o << entry >>
           trimmed == SubSeq(updated, 1,
                             IF Len(updated) < MAX_HISTORY_ENTRIES
                             THEN Len(updated) ELSE MAX_HISTORY_ENTRIES)
       IN IF ok THEN [ s EXCEPT !.item = << trimmed >> ] ELSE s

\* addToHistory(entry); ok is whether localStorage.setItem returns: when it
\* throws the catch clause logs the error and the item stays
addToHistory(s, entry, ok) ==
  IF ~s.window THEN s
  ELSE LET history == getHistory(s)
           filtered == SelectSeq(history, LAMBDA e : e.id # entry.id)
           updated == << entry >> \o filtered
           trimmed == SubSeq(updated, 1,
                             IF Len(updated) < MAX_HISTORY_ENTRIES
                             THEN Len(updated) ELSE MAX_HISTORY_ENTRIES)
       IN IF ok THEN [ s EXCEPT !.item = << trimmed >> ] ELSE s

\* clearHistory; ok is whether localStorage.removeItem returns
clearHistory(s, ok) ==
  IF ~s.window THEN s
  ELSE IF ok THEN [ s EXCEPT !.item = << >> ] ELSE s

\* removeFromHistory(id)
removeFromHistory(s, id, ok) ==
  IF ~s.window THEN s
  ELSE LET history == getHistory(s)
           filtered == SelectSeq(history, LAMBDA e : e.id # id)
       IN IF ok THEN [ s EXCEPT !.item = << filtered >> ] ELSE s

\* the history starts from an empty storage, in a browser or on the server
InitHistory ==
  /\ call = "history"
  /\ content = PlainText
  /\ pc = "done"
  /\ format = "none"
  /\ parser = "none"
  /\ tp = TextInit
  /\ jp = JsonInit
  /\ cr = ReplayInit
  /\ result = NoResult
  /\ trace = NoTrace
  /\ storage \in { [ window |-> w, item |-> << >> ] : w \in BOOLEAN }
  /\ tf = NoTruncate
  /\ tc = NoToolCall
  /\ gf = NoFetch

AddToHistory ==
  /\ call = "history"
  /\ \E entry \in HistoryEntries, ok \in BOOLEAN :
       storage' = addToHistory(storage, entry, ok)
  /\ UNCHANGED << tc, gf, trace, tf, call, content, pc, format, parser, tp, jp, cr, result >>

RemoveFromHistory ==
  /\ call = "history"
  /\ \E id \in 0..(MaxEntryIds - 1), ok \in BOOLEAN :
       storage' = removeFromHistory(storage, id, ok)
  /\ UNCHANGED << tc, gf, trace, tf, call, content, pc, format, parser, tp, jp, cr, result >>

ClearHistory ==
  /\ call = "history"
  /\ \E ok \in BOOLEAN : storage' = clearHistory(storage, ok)
  /\ UNCHANGED << tc, gf, trace, tf, call, content, pc, format, parser, tp, jp, cr, result >>

NextHistory == AddToHistory \/ RemoveFromHistory \/ ClearHistory

SpecHistory == InitHistory /\ [][NextHistory]_vars

\* ------------------------------------- src/lib/select-log-file.ts
\* the longest file name given to truncateFilename; maxLength goes one
\* beyond it and one below zero
MaxNameLength == 5

\* the character U+2026, one code unit
Ellipsis == "..."

\* a string is the sequence of its UTF-16 code units
FileNames == UNION { [ 1..n -> { "a", "b" } ] : n \in 0..MaxNameLength }

MaxLengths == -1..(MaxNameLength + 1)

\* String.prototype.slice(start, end): a negative index counts from the
\* end, every index is clamped to the string
SliceIndex(len, k) ==
  IF k < 0 THEN (IF len + k < 0 THEN 0 ELSE len + k)
  ELSE (IF k > len THEN len ELSE k)

JsSlice(s, start, end) ==
  LET from == SliceIndex(Len(s), start)
      to == SliceIndex(Len(s), end)
  IN IF from >= to THEN << >> ELSE SubSeq(s, from + 1, to)

\* Math.floor((maxLength - 1) * 0.6): the product of an integer and the
\* double 0.6 rounds to the integer 3k/5 when that is one, so the floor is
\* that of the exact quotient
KeepStart(maxLength) == (3 * (maxLength - 1)) \div 5

KeepEnd(maxLength) == maxLength - 1 - KeepStart(maxLength)

\* truncateFilename(filename, maxLength); filename.slice(-keepEnd) is
\* slice(0) when keepEnd is 0, as -0 is 0
truncateFilename(filename, maxLength) ==
  IF Len(filename) <= maxLength THEN filename
  ELSE JsSlice(filename, 0, KeepStart(maxLength))
         \o << Ellipsis >>
         \o JsSlice(filename, 0 - KeepEnd(maxLength), Len(filename))

InitTruncate ==
  /\ call = "truncateFilename"
  /\ content = PlainText
  /\ pc = "start"
  /\ format = "none"
  /\ parser = "none"
  /\ tp = TextInit
  /\ jp = JsonInit
  /\ cr = ReplayInit
  /\ result = NoResult
  /\ trace = NoTrace
  /\ storage = NoStorage
  /\ tc = NoToolCall
  /\ gf = NoFetch
  /\ tf \in { [ filename |-> f, maxLength |-> m, value |-> << >>, returned |-> FALSE ] :
                f \in FileNames, m \in MaxLengths }

TruncateFilename ==
  /\ call = "truncateFilename" /\ pc = "start"
  /\ tf' = [ tf EXCEPT !.value = truncateFilename(tf.filename, tf.maxLength),
                       !.returned = TRUE ]
  /\ pc' = "done"
  /\ UNCHANGED << tc, gf, trace, storage, call, content, format, parser, tp, jp, cr, result >>

NextTruncate == TruncateFilename

SpecTruncate == InitTruncate /\ [][NextTruncate]_vars

\* ---------------- JsonLogParser.parseToolCallFromItem as a function
\* a tool call of a round of result.metadata.toolCallRounds; arguments is
\* << the prompt of the parsed arguments >>, or << >> without arguments
RoundCall(id, name, arguments) == [ id |-> id, name |-> name, arguments |-> arguments ]

RoundsOne == << << RoundCall(1, "runSubagent", << "P1" >>) >> >>

RoundsTwo ==
  << << RoundCall(1, "runSubagent", << "P1" >>),
        RoundCall(2, "runSubagent", << "P2" >>) >> >>

RoundsSplit ==
  << << RoundCall(3, "read_file", << "x" >>),
        RoundCall(1, "runSubagent", << "P1" >>) >>,
     << RoundCall(2, "runSubagent", << "P2" >>) >> >>

RoundsSamples == { << >>, RoundsOne, RoundsTwo, RoundsSplit }

\* toolCallResults: the value of content[0] by the id of the call
ResultsSamples == { << >>, << "R1", "R2" >> }

ToolIds ==
  { "runSubagent", "runSubagent_applyPatch", "copilot_applyPatch",
    "copilot_applyPatchReplaceString", "copilot_replaceString",
    "copilot_multiReplaceString", "copilot_replaceStringTest", "runTests",
    "copilot_readTestResults", "copilot_readFile", "copilot_readSearchResults",
    "copilot_searchCodebase", "browser_searchNavigate", "browser_navigate",
    "browser_navigateClick", "browser_click", "browser_clickType",
    "browser_type", "browser_typeScreenshot", "browser_take_screenshot",
    "browser_snapshot", "browser_snapshotRun", "copilot_runInTerminal",
    "copilot_runTodo", "manage_todo_list", "copilot_getErrors" }

ToolMessages == { "Read a.ts", "Searched codebase", "Ran tool" }

\* lines 306-329: the input and the output of a subagent call, from the
\* first runSubagent call of the rounds; << >> is undefined
RECURSIVE ScanRounds(_, _, _)
ScanRounds(toolCallRounds, toolCallResults, found) ==
  IF toolCallRounds = << >> THEN found
  ELSE LET calls == SelectSeq(Head(toolCallRounds), LAMBDA c : c.name = "runSubagent") IN
       IF calls = << >>
       THEN ScanRounds(Tail(toolCallRounds), toolCallResults, found)
       ELSE LET callData == calls[1]
                next == [ input |-> IF callData.arguments # << >>
                                    THEN callData.arguments ELSE found.input,
                          output |-> IF callData.id \in DOMAIN toolCallResults
                                     THEN << toolCallResults[callData.id] >>
                                     ELSE found.output ]
            IN IF next.input # << >> THEN next
               ELSE ScanRounds(Tail(toolCallRounds), toolCallResults, next)

\* parseToolCallFromItem(item, toolCallResults, toolCallRounds): the call
\* of parseToolCallFromItem(item) with its input and its output
parseToolCallWithRounds(item, toolCallResults, toolCallRounds) ==
  LET toolCall == parseToolCallFromItem(item)
      found == IF mapToolIdToType(item.toolId) = "subagent"
               THEN ScanRounds(toolCallRounds, toolCallResults,
                               [ input |-> << >>, output |-> << >> ])
               ELSE [ input |-> << >>, output |-> << >> ]
  IN [ type |-> toolCall.type,
       rawAction |-> toolCall.rawAction,
       isSubagentRoot |-> toolCall.isSubagentRoot,
       toolCallId |-> toolCall.toolCallId,
       input |-> found.input,
       output |-> IF item.output # "" THEN << item.output >> ELSE found.output ]

InitToolCall ==
  /\ call = "parseToolCallFromItem"
  /\ content = PlainText
  /\ pc = "start"
  /\ format = "none"
  /\ parser = "none"
  /\ tp = TextInit
  /\ jp = JsonInit
  /\ cr = ReplayInit
  /\ result = NoResult
  /\ trace = NoTrace
  /\ storage = NoStorage
  /\ tf = NoTruncate
  /\ gf = NoFetch
  /\ tc \in { [ item |-> [ Item("toolInvocationSerialized", "", "", "", id, FALSE)
                             EXCEPT !.message = m, !.toolCallId = c ],
                toolCallResults |-> r, toolCallRounds |-> q,
                value |-> << >>, returned |-> FALSE ] :
              id \in ToolIds, m \in ToolMessages, c \in 1..2,
              r \in ResultsSamples, q \in RoundsSamples }

ParseToolCallFromItem ==
  /\ call = "parseToolCallFromItem" /\ pc = "start"
  /\ tc' = [ tc EXCEPT
               !.value = << parseToolCallWithRounds(tc.item, tc.toolCallResults,
                                                    tc.toolCallRounds) >>,
               !.returned = TRUE ]
  /\ pc' = "done"
  /\ UNCHANGED << gf, trace, storage, tf, call, content, format, parser, tp, jp, cr, result >>

NextToolCall == ParseToolCallFromItem

SpecToolCall == InitToolCall /\ [][NextToolCall]_vars

\* ------------------------------------------------ GistFetcher.fetchGist
maxRetries == 3

\* what the fetch of an attempt settles with: a response (status, the
\* header x-ratelimit-remaining, << >> when absent, and the id of the gist
\* of its body) or a rejection (a network error, or the abort of the
\* timeout)
Response(status, remaining) ==
  [ kind |-> "response", status |-> status, ok |-> status \in 200..299,
    remaining |-> remaining, id |-> IF status \in 200..299 THEN "g1" ELSE "" ]

Rejection(kind) ==
  [ kind |-> kind, status |-> 0, ok |-> FALSE, remaining |-> << >>, id |-> "" ]

FetchOutcomes ==
  { Response(200, << "59" >>), Response(200, << >>), Response(200, << "0" >>),
    Response(404, << "58" >>), Response(403, << "0" >>), Response(403, << >>),
    Response(400, << "57" >>), Response(500, << >>),
    Rejection("network"), Rejection("abort") }

\* lines 35-60 and the rejections of line 29: the message of the error an
\* attempt throws, << >> when it throws none
ErrorOf(outcome) ==
  CASE outcome.kind = "network" -> << "Failed to fetch" >>
    [] outcome.kind = "abort" -> << "This operation was aborted" >>
    [] outcome.remaining = << "0" >> -> << "GitHub API rate limit exceeded" >>
    [] ~outcome.ok /\ outcome.status = 404 -> << "Gist not found" >>
    [] ~outcome.ok /\ outcome.status = 403 -> << "Access denied" >>
    [] ~outcome.ok -> << "Failed to fetch gist", outcome.status >>
    [] OTHER -> << >>

\* lines 97-100: message.includes('not found') || includes('Access denied')
IsClientErrorMessage(message) ==
  message \in { << "Gist not found" >>, << "Access denied" >> }

\* the state of a call of fetchGist: the attempt of the loop, where the
\* call stands (fetch: awaiting the fetch; backoff: awaiting the timer of
\* line 104), the outcomes of the attempts so far, and how the call ended
GistInit ==
  [ attempt |-> 1, at |-> "fetch", outcomes |-> << >>, lastError |-> << >>,
    delay |-> 0, value |-> << >>, thrown |-> << >> ]

\* lines 24-107: the body of the loop once the fetch has settled
AfterAttempt(st, outcome) ==
  LET s1 == [ st EXCEPT !.outcomes = Append(@, outcome) ]
      error == ErrorOf(outcome) IN
  IF error = << >>
  THEN [ s1 EXCEPT !.at = "returned", !.value = << outcome.id >> ]
  ELSE IF IsClientErrorMessage(error)
       THEN [ s1 EXCEPT !.lastError = error, !.at = "thrown", !.thrown = error ]
       ELSE IF st.attempt < maxRetries
            THEN [ s1 EXCEPT !.lastError = error, !.at = "backoff",
                             !.delay = 1000 * 2 ^ (st.attempt - 1) ]
            ELSE [ s1 EXCEPT !.lastError = error, !.at = "thrown", !.thrown = error,
                             !.attempt = @ + 1 ]

InitGist ==
  /\ call = "fetchGist"
  /\ content = PlainText
  /\ pc = "start"
  /\ format = "none"
  /\ parser = "none"
  /\ tp = TextInit
  /\ jp = JsonInit
  /\ cr = ReplayInit
  /\ result = NoResult
  /\ trace = NoTrace
  /\ storage = NoStorage
  /\ tf = NoTruncate
  /\ tc = NoToolCall
  /\ gf = GistInit

\* the fetch of the attempt settles
GistAttempt ==
  /\ call = "fetchGist" /\ gf.at = "fetch"
  /\ \E outcome \in FetchOutcomes : gf' = AfterAttempt(gf, outcome)
  /\ pc' = IF gf'.at \in { "returned", "thrown" } THEN "done" ELSE pc
  /\ UNCHANGED << tc, trace, storage, tf, call, content, format, parser, tp, jp, cr, result >>

\* line 104: the timer of the backoff fires and the loop goes on
GistBackoff ==
  /\ call = "fetchGist" /\ gf.at = "backoff"
  /\ gf' = [ gf EXCEPT !.attempt = @ + 1, !.at = "fetch" ]
  /\ UNCHANGED << tc, trace, storage, tf, call, content, pc, format, parser, tp, jp, cr, result >>

NextGist == GistAttempt \/ GistBackoff

SpecGist == InitGist /\ [][NextGist]_vars

\* ================================================================ claims
\* the user messages of a sequence of messages, and the tool calls a
\* sequence of messages holds: the calls of its tool_call segments together
\* with the calls nested in them
UserMessages(messages) == SelectSeq(messages, LAMBDA m : m.role = "user")

CallsHeld(messages, objects) ==
  SumSeq([ k \in 1..Len(messages) |->
             SumSeq([ j \in 1..Len(messages[k].contentSegments) |->
                        LET seg == messages[k].contentSegments[j] IN
                        IF seg.type = "tool_call"
                        THEN 1 + Len(objects[seg.toolCall].subAgentCalls)
                        ELSE 0 ]) ])

\* C1: in every session a parser returns, the order values of the segments
\* of every message are 0, 1, ..., N-1 in list order; every message starts
\* again at 0, the user message and the assistant message behind it too.
C1_SegmentOrder ==
  result.status = "session" =>
    \A m \in 1..Len(result.messages) :
      \A k \in 1..Len(result.messages[m].contentSegments) :
        result.messages[m].contentSegments[k].order = k - 1

\* a JSON export session of a user message and an assistant message of at
\* least three segments
C1_Witness ==
  /\ result.status = "session" /\ parser = "json"
  /\ Len(result.messages) = 2
  /\ result.messages[1].role = "user"
  /\ Len(result.messages[1].contentSegments) = 1
  /\ result.messages[2].role = "assistant"
  /\ Len(result.messages[2].contentSegments) >= 3

\* C2: parseLog runs exactly the parser of the detected format: the JSON
\* export parser for json, the ChatReplay parser for chatreplay and the
\* text parser for text.
C2_Dispatch ==
  (call = "parseLog" /\ parser # "none") => parser = format

\* C3 as the specification words it: chatreplay whenever the object has an
\* array prompts and a property exportedAt, whatever its value.
C3_AnyExportedAt ==
  (call = "detectLogFormat" /\ pc = "done") =>
    format =
      IF ~content.brace \/ ~content.jsonOk THEN "text"
      ELSE IF content.prompts = "array" /\ content.exportedAt # "absent"
      THEN "chatreplay"
      ELSE IF content.requests = "array" THEN "json"
      ELSE "text"

\* C3: detectLogFormat returns a format for every input and never throws:
\* text when the trimmed input does not start with '{' or JSON.parse fails;
\* otherwise chatreplay when prompts is an array and exportedAt is truthy;
\* otherwise json when requests is an array; otherwise text.  With both
\* shapes present chatreplay wins.
C3_Detect ==
  (call = "detectLogFormat" /\ pc = "done") =>
    /\ result.status = "format"
    /\ format =
         IF ~content.brace \/ ~content.jsonOk THEN "text"
         ELSE IF content.prompts = "array" /\ content.exportedAt = "truthy"
         THEN "chatreplay"
         ELSE IF content.requests = "array" THEN "json"
         ELSE "text"

\* an object with an array prompts, an empty exportedAt and an array
\* requests is detected as json
C3_Witness ==
  /\ call = "detectLogFormat" /\ pc = "done"
  /\ content.prompts = "array" /\ content.exportedAt = "falsy"
  /\ content.requests = "array"
  /\ format = "json"

\* the toolCall entries of the prompts read whose args JSON.parse accepts,
\* and those whose args it rejects
ParsableToolCalls(prompts) ==
  SumSeq([ n \in 1..Len(prompts) |->
             Len(SelectSeq(prompts[n].logs,
                           LAMBDA g : g.kind = "toolCall" /\ g.args = "ok")) ])

BrokenToolCalls(prompts) ==
  SumSeq([ n \in 1..Len(prompts) |->
             Len(SelectSeq(prompts[n].logs,
                           LAMBDA g : g.kind = "toolCall" /\ g.args # "ok")) ])

C5_NoFailure ==
  /\ parser = "text" =>
       /\ result.status \in {"none", "session"}
       /\ pc = "text" =>
            /\ Returned(TextSession(TextFinish(tp))).status = "session"
            /\ Len(TextFinish(tp).messages) >= Len(tp.messages)
       /\ pc = "done" => result.status = "session"
  /\ \A line \in LinesOf(content) :
       ( /\ pc = "text"
         /\ tp.currentMessage # << >>
         /\ RuleOf(tp, line) = "content" )
       => ProcessLine(tp, line).currentContent = Append(tp.currentContent, line)

\* a session returned at the end of an input that leaves a fence open and
\* the input of a tool call unfinished
C5_Witness ==
  /\ parser = "text" /\ pc = "done" /\ result.status = "session"
  /\ tp.inCodeBlock /\ tp.inToolInput
  /\ Len(result.messages) = 1
  /\ Len(result.messages[1].contentSegments) = 2

\* C6: when a line of a message is recognised as a tool call, the pending
\* free text is first emitted as one text segment, or dropped when it is
\* empty after trimming, and the tool_call segment is appended behind it;
\* at a speaker marker and at the end of the input the pending text is
\* emitted as the last text segment of the message.
C6_FlushBeforeToolCall ==
  [][ /\ \A line \in LinesOf(content) :
           ( /\ pc = "text"
             /\ RuleOf(tp, line) = "toolCall"
             /\ tp' = [ ProcessLine(tp, line) EXCEPT !.i = @ + 1 ] )
           => LET pending == TrimJoin(tp.currentContent)
                  n == Len(tp.contentSegments)
                  emitted == IF pending = << >> THEN 0 ELSE 1
              IN /\ Len(tp'.contentSegments) = n + emitted + 1
                 /\ SubSeq(tp'.contentSegments, 1, n) = tp.contentSegments
                 /\ emitted = 1 =>
                      /\ tp'.contentSegments[n + 1].type = "text"
                      /\ tp'.contentSegments[n + 1].content = pending
                 /\ tp'.contentSegments[n + emitted + 1].type = "tool_call"
                 /\ tp'.heap[tp'.contentSegments[n + emitted + 1].toolCall]
                      = parseToolCall(line)[1]
                 /\ tp'.currentContent = << >>
      /\ \A line \in LinesOf(content) :
           ( /\ pc = "text"
             /\ tp.currentMessage # << >>
             /\ TrimJoin(tp.currentContent) # << >>
             /\ RuleOf(tp, line) \in {"user", "assistant"}
             /\ tp' = [ ProcessLine(tp, line) EXCEPT !.i = @ + 1 ] )
           => LET n == Len(tp.contentSegments)
                  segments == Last(tp'.messages).contentSegments
              IN /\ Len(tp'.messages) = Len(tp.messages) + 1
                 /\ Len(segments) = n + 1
                 /\ SubSeq(segments, 1, n) = tp.contentSegments
                 /\ segments[n + 1].type = "text"
                 /\ segments[n + 1].content = TrimJoin(tp.currentContent)
      /\ ( /\ pc = "text" /\ pc' = "done"
           /\ tp.currentMessage # << >>
           /\ TrimJoin(tp.currentContent) # << >> )
         => LET n == Len(tp.contentSegments)
                segments == Last(result'.messages).contentSegments
            IN /\ Len(result'.messages) = Len(tp.messages) + 1
               /\ Len(segments) = n + 1
               /\ SubSeq(segments, 1, n) = tp.contentSegments
               /\ segments[n + 1].type = "text"
               /\ segments[n + 1].content = TrimJoin(tp.currentContent)
    ]_vars

\* the log 'GitHub Copilot: Intro', 'Ran Click', 'More' gives one message of
\* the segments text, tool_call, text
C6_Witness ==
  /\ parser = "text" /\ pc = "done"
  /\ Len(result.messages) = 1
  /\ LET segments == result.messages[1].contentSegments IN
       /\ Len(segments) = 3
       /\ segments[1].type = "text" /\ segments[1].content = << "Intro" >>
       /\ segments[2].type = "tool_call"
       /\ tp.heap[segments[2].toolCall].action = "Click"
       /\ segments[3].type = "text" /\ segments[3].content = << "More" >>

\* the segments a response of text values without fenced block, inline
\* references, top-level tool invocations and skipped kinds stands for:
\* one text segment for each run of values and references, with the number
\* of the items merged in it, and one tool_call segment for each invocation,
\* with its toolCallId; run is the number of items of the run in progress
PlainItem(item) ==
  \/ item.kind \in skipKinds
  \/ item.kind = "inlineReference" /\ item.name # ""
  \/ item.kind = Undefined /\ item.value = VText
  \/ item.kind = "toolInvocationSerialized" /\ item.value = "" /\ ~item.fromSubAgent

RECURSIVE RunsOf(_, _)
RunsOf(items, run) ==
  LET textRun == IF run > 0 THEN << << "text", run >> >> ELSE << >> IN
  IF items = << >> THEN textRun
  ELSE IF Head(items).kind \in skipKinds THEN RunsOf(Tail(items), run)
  ELSE IF Head(items).kind = "toolInvocationSerialized"
  THEN textRun \o << << "tool_call", Head(items).toolCallId >> >>
         \o RunsOf(Tail(items), 0)
  ELSE RunsOf(Tail(items), run + 1)

SegmentsAsRuns(segments, objects) ==
  [ k \in 1..Len(segments) |->
      IF segments[k].type = "tool_call"
      THEN << "tool_call", objects[segments[k].toolCall].toolCallId >>
      ELSE << segments[k].type, Len(segments[k].content) >> ]

\* C7: the segments of the assistant message of a JSON export follow the
\* order of the response items: consecutive text and inline-reference items
\* merge into one text segment, each top-level tool invocation ends the run
\* in front of it and gives a tool_call segment, and the run behind it
\* starts a new segment.
C7_SegmentsFollowItems ==
  \A n \in 1..Len(jp.input) :
    ( /\ n < Len(jp.input) \/ pc \in {"json_requests", "done"}
      /\ \A k \in 1..Len(jp.input[n].response) : PlainItem(jp.input[n].response[k]) )
    => LET runs == RunsOf(jp.input[n].response, 0)
           made == SelectSeq(jp.messages, LAMBDA m : m.id = << n, "_response" >>)
       IN IF runs = << >> THEN made = << >>
          ELSE /\ Len(made) = 1
               /\ SegmentsAsRuns(made[1].contentSegments, jp.heap) = runs

\* the response text, tool, text, tool, text gives the five segments text,
\* tool_call, text, tool_call, text
C7_Witness ==
  /\ pc = "done" /\ result.status = "session"
  /\ \E n \in 1..Len(jp.input) :
       /\ [ k \in 1..Len(jp.input[n].response) |->
              [ jp.input[n].response[k] EXCEPT !.toolCallId = 0 ] ]
            = << IText, ITool, IText, ITool, IText >>
       /\ \E m \in 1..Len(result.messages) :
            /\ result.messages[m].id = << n, "_response" >>
            /\ [ k \in 1..Len(result.messages[m].contentSegments) |->
                   result.messages[m].contentSegments[k].type ]
                 = << "text", "tool_call", "text", "tool_call", "text" >>

\* the elements of a set of numbers in ascending order
Ascending(S) ==
  [ k \in 1..Cardinality(S) |->
      CHOOSE x \in S : Cardinality({ y \in S : y < x }) = k - 1 ]

\* the tool invocations of a response: those without fromSubAgent, and the
\* most recent one of them in front of position p (0 when there is none)
IsInvocation(item) == item.kind = "toolInvocationSerialized" /\ item.value = ""

TopLevelIn(items) ==
  { q \in 1..Len(items) : IsInvocation(items[q]) /\ ~items[q].fromSubAgent }

ParentIn(items, p) ==
  LET before == { q \in TopLevelIn(items) : q < p } IN
  IF before = {} THEN 0 ELSE CHOOSE q \in before : \A r \in before : r <= q

\* the toolCallIds of the tool_call segments, and of a sequence of calls
EmittedIds(segments, objects) ==
  LET calls == SelectSeq(segments, IsToolSeg) IN
  [ k \in 1..Len(calls) |-> objects[calls[k].toolCall].toolCallId ]

IdsOf(refs, objects) == [ k \in 1..Len(refs) |-> objects[refs[k]].toolCallId ]

\* C8 as the specification words it: a tool invocation with fromSubAgent
\* gives no top-level segment.
C8_NoSegmentForSubAgentCall ==
  pc = "json_response" =>
    \A k \in 1..Len(jp.contentSegments) :
      jp.contentSegments[k].type = "tool_call" =>
        ~jp.heap[jp.contentSegments[k].toolCall].fromSubAgent

\* C8: in a response of a JSON export, an invocation with fromSubAgent that
\* has an invocation without fromSubAgent in front of it is appended to the
\* subAgentCalls of the most recent such invocation and gives no segment;
\* an invocation with fromSubAgent that has none in front of it gives a
\* top-level segment and does not become the current top-level call; an
\* invocation without fromSubAgent gives a top-level segment and becomes
\* the current top-level call; the pointer is empty at the start of every
\* response.
C8_SubAgentNesting ==
  pc = "json_response" =>
    LET items == Last(jp.input).response
        invocations == { p \in 1..Len(items) : IsInvocation(items[p]) }
        emitted == { p \in invocations :
                       ~items[p].fromSubAgent \/ ParentIn(items, p) = 0 }
        segments == SelectSeq(jp.contentSegments, IsToolSeg)
    IN /\ EmittedIds(jp.contentSegments, jp.heap) = Ascending(emitted)
       /\ \A k \in 1..Len(segments) :
            LET toolCall == jp.heap[segments[k].toolCall] IN
            IdsOf(toolCall.subAgentCalls, jp.heap) =
              Ascending({ p \in invocations \ emitted :
                            ParentIn(items, p) = toolCall.toolCallId })
       /\ IF TopLevelIn(items) = {}
          THEN jp.lastTopLevelToolCall = 0
          ELSE /\ jp.lastTopLevelToolCall # 0
               /\ jp.heap[jp.lastTopLevelToolCall].toolCallId
                    = ParentIn(items, Len(items) + 1)
               /\ \E k \in 1..Len(segments) :
                    segments[k].toolCall = jp.lastTopLevelToolCall

\* the second response of an export: a call of a sub-agent in front of any
\* top-level call, a top-level call, and a call of a sub-agent behind it
C8_Witness ==
  /\ pc = "json_response" /\ Len(jp.input) = 2
  /\ TopLevelIn(jp.input[1].response) # {}
  /\ LET items == Last(jp.input).response IN
       /\ Len(items) = 3
       /\ IsInvocation(items[1]) /\ items[1].fromSubAgent
       /\ IsInvocation(items[2]) /\ ~items[2].fromSubAgent
       /\ IsInvocation(items[3]) /\ items[3].fromSubAgent
  /\ EmittedIds(jp.contentSegments, jp.heap) = << 1, 2 >>
  /\ IdsOf(jp.heap[jp.lastTopLevelToolCall].subAgentCalls, jp.heap) = << 3 >>

\* the toolCall entries of a prompt whose args parse and that carry no
\* fromSubAgent flag
ReplayTopLevelIn(logs) ==
  { q \in 1..Len(logs) :
      logs[q].kind = "toolCall" /\ logs[q].args = "ok" /\ ~logs[q].fromSubAgent }

\* C9: a toolCall entry of a chat replay with fromSubAgent = true is
\* attached to the subAgentCalls of the most recent top-level tool call in
\* front of it in the same prompt and is not emitted as a segment of its own.
C9_SubAgentNesting ==
  pc = "replay_logs" =>
    LET logs == Last(cr.input).logs
        segments == SelectSeq(cr.assistantSegments, IsToolSeg)
    IN \A p \in 1..Len(logs) :
         ( /\ logs[p].kind = "toolCall" /\ logs[p].args = "ok"
           /\ logs[p].fromSubAgent
           /\ \E q \in ReplayTopLevelIn(logs) : q < p )
         => /\ \A k \in 1..Len(segments) :
                 cr.heap[segments[k].toolCall].toolCallId # p
            /\ \E k \in 1..Len(segments) :
                 \E j \in 1..Len(cr.heap[segments[k].toolCall].subAgentCalls) :
                   cr.heap[cr.heap[segments[k].toolCall].subAgentCalls[j]].toolCallId = p

\* C10: a prompt of a chat replay whose text equals the text of the prompt
\* in front of it emits no user message: the user messages are those of the
\* first prompt and of every prompt that differs from the one in front of it.
C10_DuplicatePromptSuppressed ==
  Len(UserMessages(cr.messages)) =
    Cardinality({ n \in 1..Len(cr.input) :
                    n = 1 \/ cr.input[n].prompt # cr.input[n - 1].prompt })

\* C11: within one prompt of a chat replay a thinking entry is emitted at
\* most once for each thinking id: no two thinking segments of the
\* assistant message in progress stand for the same id.
C11_ThinkingOncePerId ==
  pc = "replay_logs" =>
    \A j, k \in 1..Len(cr.assistantSegments) :
      ( /\ j < k
        /\ cr.assistantSegments[j].type = "thinking"
        /\ cr.assistantSegments[k].type = "thinking" )
      => cr.assistantSegments[j].content # cr.assistantSegments[k].content

\* the thinking items of a response that give a segment: those with a
\* value that are not marked done and have no such item with the same id in
\* front of them (an item without id has no id to share)
EligibleThinking(item) ==
  item.kind = "thinking" /\ item.value # "" /\ ~item.done

EmittedThinking(items) ==
  { p \in 1..Len(items) :
      /\ EligibleThinking(items[p])
      /\ ~\E q \in 1..(p - 1) :
            /\ EligibleThinking(items[q])
            /\ items[q].id # "" /\ items[q].id = items[p].id }

\* the segments pushed while a response of text values and thinking items is
\* read: one text segment for the run of values in front of an emitted
\* thinking item, with the number of the values merged in it, and the
\* thinking segment with its value; the run behind the last emitted item is
\* still pending
RECURSIVE ThinkingRuns(_, _, _)
ThinkingRuns(items, p, run) ==
  IF p > Len(items) THEN << >>
  ELSE IF p \in EmittedThinking(items)
  THEN (IF run > 0 THEN << << "text", run >> >> ELSE << >>)
         \o << << "thinking", items[p].value >> >>
         \o ThinkingRuns(items, p + 1, 0)
  ELSE IF items[p].kind = "thinking" THEN ThinkingRuns(items, p + 1, run)
  ELSE ThinkingRuns(items, p + 1, run + 1)

\* C12: a thinking item of a JSON export gives a thinking segment iff its
\* value is not empty, it is not marked done and no thinking item of the
\* same response with the same id was emitted in front of it; the pending
\* text is flushed in front of the segment, and an item that gives no
\* segment flushes nothing.
C12_ThinkingItems ==
  ( /\ pc = "json_response"
    /\ \A p \in 1..Len(Last(jp.input).response) :
         LET item == Last(jp.input).response[p] IN
         item.kind = "thinking" \/ (item.kind = Undefined /\ item.value = VText) )
  => LET items == Last(jp.input).response IN
     /\ [ k \in 1..Len(jp.contentSegments) |->
            IF jp.contentSegments[k].type = "thinking"
            THEN << "thinking", jp.contentSegments[k].content[1] >>
            ELSE << jp.contentSegments[k].type, Len(jp.contentSegments[k].content) >> ]
          = ThinkingRuns(items, 1, 0)
     /\ jp.seenThinkingIds =
          { items[p].id : p \in { q \in EmittedThinking(items) : items[q].id # "" } }

\* a text, a thinking item with an empty value, a thinking item with the
\* same id and a repetition of it: the text is flushed and one thinking
\* segment follows it
C12_Witness ==
  /\ pc = "json_response"
  /\ [ k \in 1..Len(Last(jp.input).response) |->
         [ Last(jp.input).response[k] EXCEPT !.toolCallId = 0 ] ]
       = << IText, IThinkEmpty, IThink, IThink >>
  /\ jp.contentSegments = << TextSeg(<< VText >>, 0), ThinkingSeg(<< "Hmm" >>, 1) >>

\* the edits of a textEditGroup item, array after array, and those of the
\* items at positions lo..hi
RECURSIVE AllEditsOf(_, _)
AllEditsOf(uri, edits) ==
  IF edits = << >> THEN << >>
  ELSE [ k \in 1..Len(Head(edits)) |-> [ filePath |-> uri, text |-> Head(edits)[k] ] ]
         \o AllEditsOf(uri, Tail(edits))

RECURSIVE EditsBetween(_, _, _)
EditsBetween(items, lo, hi) ==
  IF lo > hi THEN << >>
  ELSE ( IF items[lo].kind = "textEditGroup"
         THEN AllEditsOf(items[lo].uri, items[lo].edits) ELSE << >> )
         \o EditsBetween(items, lo + 1, hi)

\* the position of the first item after i with a substantive string value,
\* or the position behind the last item
FirstSubstantiveAfter(items, i) ==
  LET later == { j \in i+1..Len(items) : IsSubstantive(items[j].value) } IN
  IF later = {} THEN Len(items) + 1
  ELSE CHOOSE j \in later : \A r \in later : j <= r

\* the replace invocations of a response and the tool call made of each
ReplaceAt(items) ==
  { i \in 1..Len(items) :
      items[i].toolId \in {"copilot_replaceString", "copilot_multiReplaceString"} }

CallAt(objects, message, i) ==
  LET refs == { message.contentSegments[k].toolCall :
                  k \in { j \in DOMAIN message.contentSegments :
                            IsToolSeg(message.contentSegments[j]) } }
  IN { h \in refs : objects[h].toolCallId = i }

\* C13: for a copilot_replaceString or copilot_multiReplaceString invocation
\* at response index i, fileEdits holds, in item order, the edits of the
\* textEditGroup items after i and before the first later item with a
\* substantive string value, and is unset when there are none.
C13_FileEdits ==
  pc = "json_requests" =>
    \A m \in 1..Len(jp.messages) :
      jp.messages[m].role = "assistant" =>
        LET items == jp.input[jp.messages[m].id[1]].response IN
        \A i \in ReplaceAt(items) : \A h \in CallAt(jp.heap, jp.messages[m], i) :
          LET expected ==
                EditsBetween(items, i + 1, FirstSubstantiveAfter(items, i) - 1)
          IN jp.heap[h].fileEdits =
               IF expected = << >> THEN << >> ELSE << expected >>

\* C14: in the text log parser a "Searched ..., <n> results" line yields a
\* search tool call with output "<n> results" and normalizedResultCount = n,
\* a "Searched ..., no matches" line one with output "0 results" and
\* normalizedResultCount = 0, and in both cases rawAction is defined.
C14_SearchResultCount ==
  pc = "text" =>
    \A h \in DOMAIN tp.heap :
      /\ tp.heap[h].action = parseToolCall(LSearchedN)[1].action =>
           /\ tp.heap[h].type = "search"
           /\ tp.heap[h].output = "6 results"
           /\ tp.heap[h].normalizedResultCount = << 6 >>
           /\ tp.heap[h].rawAction # << >>
      /\ tp.heap[h].action = parseToolCall(LSearchedNone)[1].action =>
           /\ tp.heap[h].type = "search"
           /\ tp.heap[h].output = "0 results"
           /\ tp.heap[h].normalizedResultCount = << 0 >>
           /\ tp.heap[h].rawAction # << >>

\* the candidate string of a call and the count the specification derives
\* from a candidate
CandidateOf(output, actionText) == IF output # "" THEN output ELSE actionText

CountOfCandidate(candidate) ==
  IF CountMatch(candidate) # << >> THEN CountMatch(candidate)
  ELSE IF NoResultsMatch(candidate) \/ candidate = "0 results" THEN << 0 >>
  ELSE << >>

C16_CountOnlyForSearch ==
  /\ \A h \in DOMAIN tp.heap :
       tp.heap[h].type # "search" => tp.heap[h].normalizedResultCount = << >>
  /\ \A h \in DOMAIN jp.heap :
       jp.heap[h].type # "search" => jp.heap[h].normalizedResultCount = << >>
  /\ \A h \in DOMAIN cr.heap :
       cr.heap[h].type # "search" => cr.heap[h].normalizedResultCount = << >>

\* C17: in a message of the text log a line containing the delimiter
\* "|Searched " is split on it and yields one search tool_call segment per
\* fragment, in fragment order, each with the action and output of its
\* fragment, behind the pending text flushed once; a line with two fragments
\* yields exactly two search segments.
C17_OneSearchPerFragment ==
  [][ \A line \in LinesOf(content) :
        ( /\ pc = "text"
          /\ RuleOf(tp, line) = "multiSearch"
          /\ tp' = [ ProcessLine(tp, line) EXCEPT !.i = @ + 1 ] )
        => LET fragments == SplitSearched(line)
               pending == TrimJoin(tp.currentContent)
               n == Len(tp.contentSegments)
               emitted == IF pending = << >> THEN 0 ELSE 1
           IN /\ Len(tp'.contentSegments) = n + emitted + Len(fragments)
              /\ SubSeq(tp'.contentSegments, 1, n) = tp.contentSegments
              /\ emitted = 1 => tp'.contentSegments[n + 1].content = pending
              /\ \A k \in 1..Len(fragments) :
                   LET seg == tp'.contentSegments[n + emitted + k] IN
                   /\ seg.type = "tool_call"
                   /\ tp'.heap[seg.toolCall].type = "search"
                   /\ parseToolCall(fragments[k]) = << tp'.heap[seg.toolCall] >>
    ]_vars

\* a message has a content segment or a file reference
HasContent(message) ==
  Len(message.contentSegments) > 0 \/ Len(message.fileReferences) > 0

\* the message in progress accumulated a segment (the pending text is one
\* when it is not empty after trimming) or a file reference
Accumulated(st) ==
  \/ Len(st.contentSegments) > 0
  \/ TrimJoin(st.currentContent) # << >>
  \/ Len(st.currentMessage[1].fileReferences) > 0

\* the messages of st followed by the message in progress when it
\* accumulated something
ExpectedMessages(st, after) ==
  /\ Len(after) = Len(st.messages) + (IF Accumulated(st) THEN 1 ELSE 0)
  /\ SubSeq(after, 1, Len(st.messages)) = st.messages
  /\ Accumulated(st) => Last(after).id = st.currentMessage[1].id

\* C18: every message of the text log parser's output has a content segment
\* or a file reference, and every message started by a speaker marker that
\* accumulated a segment or a file reference is in the output, in the order
\* of the markers.
C18_MessagesWithContent ==
  [][ /\ \A m \in 1..Len(tp'.messages) : HasContent(tp'.messages[m])
      /\ \A m \in 1..Len(tp'.messages) : \A k \in 1..Len(tp'.messages) :
           m < k => tp'.messages[m].id < tp'.messages[k].id
      /\ \A line \in LinesOf(content) :
           ( /\ pc = "text"
             /\ tp.currentMessage # << >>
             /\ RuleOf(tp, line) \in {"user", "assistant"}
             /\ tp' = [ ProcessLine(tp, line) EXCEPT !.i = @ + 1 ] )
           => ExpectedMessages(tp, tp'.messages)
      /\ ( pc = "text" /\ pc' = "done" /\ tp.currentMessage # << >> )
           => /\ result'.status = "session"
              /\ ExpectedMessages(tp, result'.messages)
    ]_vars

\* a log whose first message had no text and was dropped, whose second
\* message is in the output, and whose third message is in progress
C18_Witness ==
  /\ pc = "text" /\ tp.messageIdCounter = 3
  /\ Len(tp.messages) = 1 /\ tp.messages[1].id = 2

\* the task list of the message in progress
CurrentTasks(st) ==
  IF st.currentMessage = << >> THEN << >> ELSE st.currentMessage[1].tasks

\* C19: in the text log parser a "Starting: *Name* (i/n)" line handled as a
\* tool call produces exactly one todo tool_call segment and is never
\* recorded in the task list of the message; only "Created N todos" and
\* "Completed: *Name* (i/n)" lines add task entries, one each, and they add
\* no content segment.
C19_StartingIsToolCallOnly ==
  [][ \A line \in LinesOf(content) :
        ( pc = "text" /\ tp' = [ ProcessLine(tp, line) EXCEPT !.i = @ + 1 ] )
        => /\ line = LStarting => CurrentTasks(tp') = CurrentTasks(tp)
           /\ ( line = LStarting /\ RuleOf(tp, line) = "toolCall" )
                => /\ CountSeq(tp'.contentSegments, IsToolSeg)
                        = CountSeq(tp.contentSegments, IsToolSeg) + 1
                   /\ Last(tp'.contentSegments).type = "tool_call"
                   /\ tp'.heap[Last(tp'.contentSegments).toolCall].type = "todo"
           /\ Len(CurrentTasks(tp')) > Len(CurrentTasks(tp))
                => /\ line \in {LCreated, LCompleted}
                   /\ CurrentTasks(tp')
                        = Append(CurrentTasks(tp), parseTaskStatus(line)[1])
                   /\ tp'.contentSegments = tp.contentSegments
                   /\ tp'.currentContent = tp.currentContent
           /\ ( line \in {LCreated, LCompleted} /\ RuleOf(tp, line) = "task" )
                => Len(CurrentTasks(tp')) = Len(CurrentTasks(tp)) + 1
    ]_vars

\* a message with a Starting line, a Created line and a Completed line: one
\* todo tool call and the two tasks
C19_Witness ==
  /\ pc = "text" /\ tp.currentMessage # << >>
  /\ Len(tp.contentSegments) = 1
  /\ tp.contentSegments[1].type = "tool_call"
  /\ tp.heap[tp.contentSegments[1].toolCall].type = "todo"
  /\ Len(tp.currentMessage[1].tasks) = 2
  /\ tp.currentMessage[1].tasks[1].title = "Created 3 todos"
  /\ tp.currentMessage[1].tasks[2].status = "completed"
  /\ tp.currentMessage[1].tasks[2].index = "1/3"

\* the tool_call segments and the file references of a sequence of
\* messages, as the sets of their positions
ToolCallSegments(messages) ==
  UNION { { << m, k >> : k \in { j \in DOMAIN messages[m].contentSegments :
                                     messages[m].contentSegments[j].type = "tool_call" } } :
          m \in DOMAIN messages }

FileReferences(messages) ==
  UNION { { << m, k >> : k \in DOMAIN messages[m].fileReferences } :
          m \in DOMAIN messages }

\* C20: for every session a parser returns, metadata.totalMessages is the
\* number of messages and metadata.toolCallCount the number of tool_call
\* segments of all the messages; in the text parser metadata.fileCount is
\* the number of the file references of all the messages.
C20_Metadata ==
  result.status = "session" =>
    /\ result.metadata.totalMessages = Len(result.messages)
    /\ result.metadata.toolCallCount = Cardinality(ToolCallSegments(result.messages))
    /\ parser = "text" =>
         result.metadata.fileCount = Cardinality(FileReferences(result.messages))

\* a session of the text parser with two messages, text segments, a tool
\* call and two file references
C20_Witness ==
  /\ parser = "text" /\ result.status = "session"
  /\ result.metadata.totalMessages = 2
  /\ result.metadata.toolCallCount = 1
  /\ result.metadata.fileCount = 2
  /\ Len(result.messages[2].contentSegments) >= 2

\* the content of a text segment is empty after trimming or made only of
\* bare fence markers
IsEmptyText(text) ==
  \A k \in 1..Len(text) : text[k] \in { "", "  ", "'''", "'''ts" }

\* C21: no parser emits an empty text segment: in every message of every
\* returned session, the user messages built from a JSON request text or a
\* chatreplay prompt included, the content of each text segment is not empty
\* after trimming and is not made only of bare fence markers.
C21_NoEmptyTextSegment ==
  result.status = "session" =>
    \A m \in 1..Len(result.messages) :
      \A k \in 1..Len(result.messages[m].contentSegments) :
        result.messages[m].contentSegments[k].type = "text"
          => ~IsEmptyText(result.messages[m].contentSegments[k].content)

\* C22: parsing keeps no state between calls: a call of parse returns the
\* session every earlier call on the same input returned (same message
\* ids, same order values, same content), also on one parser instance and
\* whatever was parsed in between.
C22_SameInputSameSession ==
  (call = "parse" /\ pc = "done") =>
    \A k \in 1..Len(trace.earlier) :
      trace.earlier[k].lines = trace.read
        => trace.earlier[k].messages = result.messages

\* C23: in the text log parser a closed fenced code block becomes a
\* code_block segment at the position where it occurred: the step at the
\* closing fence of a block opened inside a message leaves contentSegments
\* ending with a code_block segment of the language of the opening fence,
\* behind the text segment of the lines in front of the block.
C23_ClosedFenceIsSegment ==
  [][ \A line \in LinesOf(content) :
        ( /\ pc = "text" /\ RuleOf(tp, line) = "fence"
          /\ tp.inCodeBlock /\ tp.currentCodeBlock # << >>
          /\ tp.currentMessage # << >>
          /\ tp' = [ ProcessLine(tp, line) EXCEPT !.i = @ + 1 ] )
        => /\ tp'.contentSegments # << >>
           /\ Last(tp'.contentSegments).type = "code_block"
           /\ Last(tp'.contentSegments).language = tp.currentCodeBlock[1].language
           /\ tp'.currentContent = << >> ]_vars

\* C24: in the text log parser every flush of the buffer of free-text
\* lines (before a tool call of any kind, the read call of a Read line
\* included, and at a message boundary) emits the buffered lines joined by
\* newlines with only the leading and trailing white space removed, so
\* interior blank lines and indentation are kept: the text segment a step
\* adds behind the segments of the current message has the content
\* currentContent.join('\n').trim().
C24_FlushKeepsLines ==
  [][ \A line \in LinesOf(content) :
        ( /\ pc = "text" /\ tp.currentMessage # << >>
          /\ tp' = [ ProcessLine(tp, line) EXCEPT !.i = @ + 1 ] )
        => LET n == Len(tp.contentSegments)
               after == IF Len(tp'.messages) > Len(tp.messages)
                        THEN Last(tp'.messages).contentSegments
                        ELSE tp'.contentSegments
           IN (Len(after) > n /\ after[n + 1].type = "text")
                => after[n + 1].content = TrimJoin(tp.currentContent) ]_vars

\* the ids of a list of history entries
EntryIds(history) == [ k \in 1..Len(history) |-> history[k].id ]

\* C25: starting from an empty storage, after any sequence of addToHistory,
\* removeFromHistory and clearHistory calls getHistory returns at most 5
\* entries and no two of them have the same id.
C25_HistoryBounded ==
  LET history == getHistory(storage) IN
  /\ Len(history) <= 5
  /\ \A j, k \in 1..Len(history) : history[j].id = history[k].id => j = k

\* a full history, reached by adding more than five entries
C25_Witness ==
  /\ call = "history"
  /\ Len(getHistory(storage)) = 5
  /\ getHistory(storage)[5].id > 4

\* what addToHistory(e) makes of a history: e first, no other entry of its
\* id, the other entries in their order behind it, cut at the tail to 5
AddedFirst(before, after, e) ==
  LET others == SelectSeq(before, LAMBDA x : x.id # e.id) IN
  /\ after # << >>
  /\ after[1] = e
  /\ \A k \in 2..Len(after) : after[k].id # e.id
  /\ Len(after) = IF Len(others) + 1 < 5 THEN Len(others) + 1 ELSE 5
  /\ \A k \in 2..Len(after) : after[k] = others[k - 1]

\* C26: addToHistory(e) makes e the first entry getHistory returns, removes
\* any earlier entry of the same id, keeps the other entries in their order
\* behind it and drops the entries at the tail when the list would exceed 5
\* (as stated: for every call, whatever the environment).
C26_AddPutsFirst ==
  \A e \in HistoryEntries, ok \in BOOLEAN :
    AddedFirst(getHistory(storage), getHistory(addToHistory(storage, e, ok)), e)

\* C26 (amended): the same in a browser when localStorage.setItem returns;
\* without a window, and when setItem throws, the history stays as it was.
C26_AddPutsFirstWhenStored ==
  /\ \A e \in HistoryEntries :
       storage.window =>
         AddedFirst(getHistory(storage), getHistory(addToHistory(storage, e, TRUE)), e)
  /\ \A e \in HistoryEntries :
       getHistory(addToHistory(storage, e, FALSE)) = getHistory(storage)
  /\ \A e \in HistoryEntries, ok \in BOOLEAN :
       ~storage.window => getHistory(addToHistory(storage, e, ok)) = << >>

\* the entries 0..9 added in turn: the list is 9, 8, 7, 6, 5
C26_Witness ==
  /\ call = "history"
  /\ EntryIds(getHistory(storage)) = << 9, 8, 7, 6, 5 >>

\* C27: truncateFilename(name, maxLength) returns name unchanged when its
\* length is at most maxLength, and otherwise a string that contains the
\* ellipsis and whose length is at most maxLength, for every name and
\* every maxLength.
C27_TruncatedFits ==
  tf.returned =>
    IF Len(tf.filename) <= tf.maxLength
    THEN tf.value = tf.filename
    ELSE /\ \E k \in 1..Len(tf.value) : tf.value[k] = Ellipsis
         /\ Len(tf.value) <= tf.maxLength

\* what a step of the line loop did with the line, read off the parser
\* state s before and t after it: started a message, touched the code
\* block, touched the tool input, recorded a file reference, emitted the
\* read call of a file reference, emitted a call of the recogniser table
\* (none of its calls has the type read), recorded a task, buffered the line
CountOfCurrent(st, list) ==
  IF st.currentMessage = << >> THEN 0
  ELSE IF list = "tasks" THEN Len(st.currentMessage[1].tasks)
  ELSE Len(st.currentMessage[1].fileReferences)

EffectsOf(s, t, line) ==
  { e \in { "message", "fence", "input", "fileRef", "readCall", "toolCall",
            "task", "text" } :
      CASE e = "message" -> t.messageIdCounter # s.messageIdCounter
        [] e = "fence" -> t.inCodeBlock # s.inCodeBlock \/ t.codeLines # s.codeLines
        [] e = "input" ->
             \/ t.inToolInput # s.inToolInput
             \/ t.toolInputLines # s.toolInputLines
             \/ \E k \in 1..Len(s.heap) : t.heap[k].input # s.heap[k].input
        [] e = "fileRef" ->
             CountOfCurrent(t, "fileReferences") > CountOfCurrent(s, "fileReferences")
        [] e = "readCall" ->
             \E k \in (Len(s.heap) + 1)..Len(t.heap) : t.heap[k].type = "read"
        [] e = "toolCall" ->
             \E k \in (Len(s.heap) + 1)..Len(t.heap) : t.heap[k].type # "read"
        [] e = "task" -> CountOfCurrent(t, "tasks") > CountOfCurrent(s, "tasks")
        [] OTHER -> t.currentContent = Append(s.currentContent, line) }

\* the effects a rule may have, and those it has whenever it handles a line
AllowedEffects(rule) ==
  CASE rule = "multiSearch" -> { "toolCall" }
    [] rule \in { "fence", "codeLine" } -> { "fence" }
    [] rule \in { "toolInput", "completedWithInput" } -> { "input" }
    [] rule \in { "user", "assistant" } -> { "message" }
    [] rule = "fileRef" -> { "fileRef", "readCall" }
    [] rule = "toolCall" -> { "toolCall" }
    [] rule = "task" -> { "task" }
    [] OTHER -> { "text" }

RequiredEffects(st, rule) ==
  CASE rule \in { "fence", "codeLine" } -> { "fence" }
    [] rule = "toolInput" -> { "input" }
    [] rule \in { "user", "assistant" } -> { "message" }
    [] rule = "fileRef" -> { "fileRef" }
    [] rule = "toolCall" -> { "toolCall" }
    [] rule = "task" -> { "task" }
    [] rule = "content" /\ st.currentMessage # << >> -> { "text" }
    [] OTHER -> { }

\* the first rule that matches a line, in the order of the claim
FirstRule(st, line) ==
  IF IsMultiSearch(line) /\ st.currentMessage # << >> THEN "multiSearch"
  ELSE IF IsFence(line) THEN "fence"
  ELSE IF st.inCodeBlock THEN "codeLine"
  ELSE IF st.inToolInput THEN "toolInput"
  ELSE NormalRule(st, line)

\* a line that ends the collection of the tool input: a blank line or a
\* marker line met before the collected lines parse
EndsToolInput(st, line) ==
  /\ FirstRule(st, line) = "toolInput"
  /\ ~JsonParses(Append(st.toolInputLines, line))
  /\ (TrimIsEmpty(line) \/ IsSectionStart(line))

\* C28: in the text log parser each line is handled by exactly one rule,
\* the first that matches in the order multi-search line, code fence and
\* code-block body, tool-input collection, user marker, assistant marker,
\* file reference, Completed with input, tool-call recognisers, task status,
\* free text; the line has the effects of that rule and of no other.
C28_OneRulePerLine ==
  [][ \A line \in LinesOf(content) :
        ( /\ pc = "text"
          /\ tp' = [ ProcessLine(tp, line) EXCEPT !.i = @ + 1 ] )
        => /\ EffectsOf(tp, tp', line) \subseteq AllowedEffects(FirstRule(tp, line))
           /\ RequiredEffects(tp, FirstRule(tp, line)) \subseteq EffectsOf(tp, tp', line)
    ]_vars

\* C28 (amended): the same, but a line that ends the collection of the
\* tool input is handled by two rules: by the tool-input rule, and then by
\* the first of the rules behind it that matches.
C28_OneRuleBehindToolInput ==
  [][ \A line \in LinesOf(content) :
        ( /\ pc = "text"
          /\ tp' = [ ProcessLine(tp, line) EXCEPT !.i = @ + 1 ] )
        => LET first == FirstRule(tp, line)
               second == NormalRule(tp, line)
           IN IF EndsToolInput(tp, line)
              THEN /\ EffectsOf(tp, tp', line)
                        \subseteq (AllowedEffects(first) \cup AllowedEffects(second))
                   /\ (RequiredEffects(tp, first) \cup RequiredEffects(tp, second))
                        \subseteq EffectsOf(tp, tp', line)
              ELSE /\ EffectsOf(tp, tp', line) \subseteq AllowedEffects(first)
                   /\ RequiredEffects(tp, first) \subseteq EffectsOf(tp, tp', line)
    ]_vars

\* a message with a file reference, a call of the recogniser table and a
\* task, its lines handled by the rules 6, 8 and 9
C28_Witness ==
  /\ pc = "text" /\ tp.currentMessage # << >>
  /\ Len(tp.currentMessage[1].fileReferences) > 0
  /\ Len(tp.currentMessage[1].tasks) > 0
  /\ \E k \in 1..Len(tp.heap) : tp.heap[k].type = "todo"

\* what a 'Completed with input:' line leaves alone: the segments, the
\* messages, the current message and the pending text buffer
LeavesContentAlone(s, t) ==
  /\ t.contentSegments = s.contentSegments
  /\ t.currentContent = s.currentContent
  /\ t.messages = s.messages
  /\ t.currentMessage = s.currentMessage
  /\ Len(t.heap) = Len(s.heap)

\* C29: in the text log parser a 'Completed with input:' line never appends
\* a content segment and never changes the pending text buffer; trailing
\* content that is complete JSON is set as the input of lastToolCall,
\* trailing content that looks like JSON but does not parse enters
\* IN_TOOL_INPUT with that content as the buffer, and empty trailing
\* content enters IN_TOOL_INPUT with an empty buffer.
C29_CompletedWithInput ==
  [][ \A line \in LinesOf(content) :
        ( /\ pc = "text" /\ RuleOf(tp, line) = "completedWithInput"
          /\ tp' = [ ProcessLine(tp, line) EXCEPT !.i = @ + 1 ] )
        => LET inlineInput == InlineInput(line) IN
           /\ LeavesContentAlone(tp, tp')
           /\ (inlineInput # "" /\ JsonParses(<< inlineInput >>) /\ tp.lastToolCall # 0)
                => /\ tp'.heap[tp.lastToolCall].input = << << inlineInput >> >>
                   /\ ~tp'.inToolInput
           /\ (inlineInput # "" /\ LooksLikeJson(inlineInput)
                 /\ ~JsonParses(<< inlineInput >>))
                => (tp'.inToolInput /\ tp'.toolInputLines = << inlineInput >>)
           /\ inlineInput = ""
                => (tp'.inToolInput /\ tp'.toolInputLines = << >>)
    ]_vars

\* C29 (amended): the same when there is a lastToolCall; without one the
\* line changes nothing and the parser does not enter IN_TOOL_INPUT.
C29_CompletedWithInputOfLastCall ==
  [][ \A line \in LinesOf(content) :
        ( /\ pc = "text" /\ RuleOf(tp, line) = "completedWithInput"
          /\ tp' = [ ProcessLine(tp, line) EXCEPT !.i = @ + 1 ] )
        => LET inlineInput == InlineInput(line) IN
           /\ LeavesContentAlone(tp, tp')
           /\ tp.lastToolCall = 0 => tp' = [ tp EXCEPT !.i = @ + 1 ]
           /\ (inlineInput # "" /\ JsonParses(<< inlineInput >>) /\ tp.lastToolCall # 0)
                => /\ tp'.heap[tp.lastToolCall].input = << << inlineInput >> >>
                   /\ tp'.lastToolCall = 0
                   /\ ~tp'.inToolInput
           /\ (inlineInput # "" /\ LooksLikeJson(inlineInput)
                 /\ ~JsonParses(<< inlineInput >>) /\ tp.lastToolCall # 0)
                => /\ tp'.inToolInput /\ tp'.toolInputLines = << inlineInput >>
                   /\ tp'.lastToolCall = tp.lastToolCall
           /\ (inlineInput = "" /\ tp.lastToolCall # 0)
                => /\ tp'.inToolInput /\ tp'.toolInputLines = << >>
                   /\ tp'.lastToolCall = tp.lastToolCall
    ]_vars

\* the parser in IN_TOOL_INPUT with the trailing content of the line as
\* the buffer, no segment behind that of the tool call
C29_Witness ==
  /\ pc = "text" /\ tp.inToolInput /\ tp.toolInputLines = << "{" >>
  /\ tp.lastToolCall # 0
  /\ tp.contentSegments # << >>
  /\ Last(tp.contentSegments).toolCall = tp.lastToolCall
  /\ tp.currentContent = << >>

\* C30: in IN_TOOL_INPUT a blank line or a line starting a user, assistant
\* or tool marker that arrives before the buffer parses as JSON ends the
\* collection: the lines collected so far, without that line, become the
\* input of lastToolCall, the parser returns to NORMAL and the same line is
\* then classified by the normal rules, so the parser never stays in
\* IN_TOOL_INPUT past a blank line or a marker line.
C30_ToolInputEndsAtMarker ==
  [][ \A line \in LinesOf(content) :
        ( /\ pc = "text" /\ tp.inToolInput /\ tp.lastToolCall # 0
          /\ ~JsonParses(Append(tp.toolInputLines, line))
          /\ (TrimIsEmpty(line) \/ IsSectionStart(line))
          /\ tp' = [ ProcessLine(tp, line) EXCEPT !.i = @ + 1 ] )
        => LET left == [ tp EXCEPT
                           !.heap[tp.lastToolCall].input = InputOf(tp.toolInputLines),
                           !.inToolInput = FALSE,
                           !.toolInputLines = << >>,
                           !.lastToolCall = 0 ]
           IN /\ ~tp'.inToolInput
              /\ tp' = [ NormalBranch(left, line) EXCEPT !.i = tp.i + 1 ]
    ]_vars

\* the tool calls held by the finalized messages of the text parser
FinalizedCalls(st) ==
  UNION { { st.messages[m].contentSegments[k].toolCall :
              k \in { j \in DOMAIN st.messages[m].contentSegments :
                        st.messages[m].contentSegments[j].type = "tool_call" } } :
          m \in DOMAIN st.messages }

\* C31: in the text log parser lastToolCall is per-message state: it is
\* empty when a new user or assistant message starts, and no line of a
\* message sets or changes the input of a tool call that belongs to an
\* earlier, already finalized message.
C31_LastToolCallPerMessage ==
  [][ \A line \in LinesOf(content) :
        ( /\ pc = "text"
          /\ tp' = [ ProcessLine(tp, line) EXCEPT !.i = @ + 1 ] )
        => /\ RuleOf(tp, line) \in { "user", "assistant" } => tp'.lastToolCall = 0
           /\ \A h \in FinalizedCalls(tp) : tp'.heap[h].input = tp.heap[h].input
    ]_vars

\* the tool_call segments of the message being built
CurrentCalls(st) == SelectSeq(st.contentSegments, IsToolSeg)

\* C32: in the text log parser the input payload of a 'Completed with
\* input:' line, inline or collected over several lines, is attached to the
\* tool call whose segment was the last one emitted before that line in the
\* same message, whichever rule emitted the call and whatever lines occur
\* while the payload is collected: at the line lastToolCall is that call,
\* it stays that call during the collection, and no other call gets input.
C32_InputToLastEmittedCall ==
  [][ \A line \in LinesOf(content) :
        ( /\ pc = "text"
          /\ tp' = [ ProcessLine(tp, line) EXCEPT !.i = @ + 1 ] )
        => /\ (RuleOf(tp, line) = "completedWithInput" /\ CurrentCalls(tp) # << >>)
                => tp.lastToolCall = Last(CurrentCalls(tp)).toolCall
           /\ (tp.inToolInput /\ tp'.inToolInput)
                => tp'.lastToolCall = tp.lastToolCall
           /\ \A h \in 1..Len(tp.heap) :
                tp'.heap[h].input # tp.heap[h].input => h = tp.lastToolCall
    ]_vars

\* the order of the tool types and the patterns of each type
TypeOrder ==
  << "subagent", "patch", "replace", "test", "read", "search", "navigate",
     "click", "type", "screenshot", "run", "todo" >>

PatternsOfType(type) ==
  CASE type = "subagent" -> { "runSubagent" }
    [] type = "patch" -> { "applyPatch" }
    [] type = "replace" -> { "multiReplaceString", "replaceString" }
    [] type = "test" -> { "runTests", "test" }
    [] type = "screenshot" -> { "screenshot", "snapshot" }
    [] OTHER -> { type }

FirstTypeOf(toolId) ==
  LET hits == { k \in 1..Len(TypeOrder) :
                  PatternsOf(toolId) \cap PatternsOfType(TypeOrder[k]) # {} }
  IN IF hits = {} THEN "other"
     ELSE TypeOrder[CHOOSE k \in hits : \A j \in hits : k <= j]

\* C33: in the JSON export parser the tool type is the first match in the
\* order subagent, patch, replace, test, read, search, navigate, click,
\* type, screenshot, run, todo, else other, and afterwards it is search
\* whenever the message starts with Searched.
C33_TypePriority ==
  tc.returned =>
    tc.value[1].type =
      IF StartsWithSearched(tc.item.message) THEN "search"
      ELSE FirstTypeOf(tc.item.toolId)

\* a tool id that matches the patterns of test, read and run is a test, and
\* a patch whose message starts with Searched is a search
C33_Witness ==
  /\ tc.returned
  /\ \/ tc.item.toolId = "runTests" /\ tc.value[1].type = "test"
     \/ /\ tc.item.toolId = "copilot_applyPatch" /\ tc.value[1].type = "search"

\* the edits of the textEditGroup items after position i whose nearest
\* preceding replace invocation is the one at i
RECURSIVE OwnedEdits(_, _)
OwnedEdits(items, e) ==
  IF e > Len(items) \/ e \in ReplaceAt(items) THEN << >>
  ELSE IF items[e].kind = "textEditGroup"
       THEN FirstEdits(items[e].uri, items[e].edits) \o OwnedEdits(items, e + 1)
       ELSE OwnedEdits(items, e + 1)

IsPrefixOf(s, t) == Len(s) <= Len(t) /\ SubSeq(t, 1, Len(s)) = s

\* C34: in the JSON export parser a textEditGroup item contributes its edits
\* to the fileEdits of at most one tool call, the nearest preceding replace
\* call: the fileEdits of the replace call at response index i hold only
\* edits of the groups between i and the next replace invocation.
C34_EditsOfNearestReplace ==
  pc = "json_requests" =>
    \A m \in 1..Len(jp.messages) :
      jp.messages[m].role = "assistant" =>
        LET items == jp.input[jp.messages[m].id[1]].response IN
        \A i \in ReplaceAt(items) : \A h \in CallAt(jp.heap, jp.messages[m], i) :
          jp.heap[h].fileEdits # << >> =>
            IsPrefixOf(jp.heap[h].fileEdits[1], OwnedEdits(items, i + 1))

\* the calls of the segments and, behind each of them, the calls nested in it
RECURSIVE FlatCalls(_, _)
FlatCalls(segments, objects) ==
  IF segments = << >> THEN << >>
  ELSE ( IF IsToolSeg(Head(segments))
         THEN << Head(segments).toolCall >>
                \o objects[Head(segments).toolCall].subAgentCalls
         ELSE << >> )
       \o FlatCalls(Tail(segments), objects)

\* C35: in a response of a JSON export every toolInvocationSerialized item
\* yields one tool call that appears once, as a top-level tool_call segment
\* or in the subAgentCalls of one top-level call; none is dropped or
\* duplicated, and the segments with their nested calls keep the order of
\* the response items.
C35_EveryInvocationOnce ==
  pc = "json_response" =>
    LET items == Last(jp.input).response
        flat == FlatCalls(jp.contentSegments, jp.heap)
    IN /\ IdsOf(flat, jp.heap)
            = Ascending({ p \in 1..Len(items) : IsInvocation(items[p]) })
       /\ \A j, k \in 1..Len(flat) : flat[j] = flat[k] => j = k

\* a response of three invocations, the first of a sub-agent with no
\* top-level call in front of it, the third nested in the second
C35_Witness ==
  /\ pc = "json_response"
  /\ LET items == Last(jp.input).response IN
       /\ Len(items) = 3
       /\ \A p \in 1..3 : IsInvocation(items[p])
       /\ items[1].fromSubAgent /\ ~items[2].fromSubAgent /\ items[3].fromSubAgent
  /\ IdsOf(FlatCalls(jp.contentSegments, jp.heap), jp.heap) = << 1, 2, 3 >>
  /\ Len(SelectSeq(jp.contentSegments, IsToolSeg)) = 2

\* the tool calls of the segments of the response in progress and of the
\* messages
TopLevelCalls(st) ==
  { st.contentSegments[k].toolCall :
      k \in { j \in DOMAIN st.contentSegments : IsToolSeg(st.contentSegments[j]) } }
  \cup FinalizedCalls(st)

\* C36: in a session of the JSON export parser every call of a
\* subAgentCalls list has fromSubAgent = true and no subAgentCalls of its
\* own, and every call with a non-empty subAgentCalls list is the call of a
\* top-level segment and has no fromSubAgent.
C36_OneLevelOfNesting ==
  \A h \in 1..Len(jp.heap) :
    jp.heap[h].subAgentCalls # << >> =>
      /\ h \in TopLevelCalls(jp)
      /\ ~jp.heap[h].fromSubAgent
      /\ \A k \in 1..Len(jp.heap[h].subAgentCalls) :
           LET nested == jp.heap[jp.heap[h].subAgentCalls[k]] IN
           /\ nested.fromSubAgent = TRUE
           /\ nested.subAgentCalls = << >>

\* a message whose top-level call holds two calls of a sub-agent, behind a
\* top-level segment of a call of a sub-agent
C36_Witness ==
  /\ pc = "json_requests"
  /\ \E h \in FinalizedCalls(jp) : Len(jp.heap[h].subAgentCalls) = 2
  /\ \E h \in FinalizedCalls(jp) : jp.heap[h].fromSubAgent

\* the runSubagent calls of the rounds with the id of the item
OwnInvocations(toolCallRounds, toolCallId) ==
  UNION { { toolCallRounds[r][k] :
              k \in { j \in DOMAIN toolCallRounds[r] :
                        /\ toolCallRounds[r][j].name = "runSubagent"
                        /\ toolCallRounds[r][j].id = toolCallId } } :
          r \in DOMAIN toolCallRounds }

\* C37: in the JSON export parser a subagent root tool call of a request
\* with several runSubagent invocations has as input the prompt of its own
\* invocation in toolCallRounds and as output the result of its own
\* invocation in toolCallResults.
C37_OwnPromptAndResult ==
  ( tc.returned /\ tc.value[1].isSubagentRoot ) =>
    \A own \in OwnInvocations(tc.toolCallRounds, tc.item.toolCallId) :
      /\ tc.value[1].input = own.arguments
      /\ own.id \in DOMAIN tc.toolCallResults =>
           tc.value[1].output = << tc.toolCallResults[own.id] >>

\* a response with a client-error status
IsClientError(outcome) == outcome.kind = "response" /\ outcome.status \in 400..499

\* an attempt succeeds: a response with ok = true that is not rate limited
Succeeds(outcome) == outcome.ok /\ outcome.remaining # << "0" >>

\* C38: fetchGist makes at most 3 fetch attempts, makes no further attempt
\* after a client-error response (404, 403, other 4xx), goes on after a
\* network error, returns as soon as an attempt succeeds, and after the
\* third failed attempt throws the last error.
C38_RetryOnlyNetworkErrors ==
  call = "fetchGist" =>
    /\ Len(gf.outcomes) <= maxRetries
    /\ \A k \in 1..Len(gf.outcomes) :
         /\ IsClientError(gf.outcomes[k])
               => k = Len(gf.outcomes) /\ gf.at = "thrown"
         /\ Succeeds(gf.outcomes[k])
               => k = Len(gf.outcomes) /\ gf.at = "returned"
         /\ ( gf.outcomes[k].kind \in { "network", "abort" } /\ k < maxRetries )
               => ( k < Len(gf.outcomes) \/ gf.at = "backoff" )
    /\ gf.at = "returned" => Succeeds(Last(gf.outcomes))
    /\ ( gf.at = "thrown" /\ Len(gf.outcomes) = maxRetries )
         => gf.thrown = ErrorOf(Last(gf.outcomes))

\* C39: when an attempt of fetchGist receives a response with ok = true,
\* fetchGist returns the gist data built from that response, whatever the
\* rate-limit headers of the response say.
C39_OkResponseIsReturned ==
  \A k \in 1..Len(gf.outcomes) :
    gf.outcomes[k].ok =>
      /\ k = Len(gf.outcomes)
      /\ gf.at = "returned"
      /\ gf.value = << gf.outcomes[k].id >>
====
